---- MODULE Spec2Model ----
(***************************************************************************)
(* Registration lifecycle and audit ledger of the MCP registry backend.    *)
(*                                                                         *)
(* The store is PostgreSQL reached through asyncpg.  Every request runs on *)
(* its own pooled connection; conn.transaction() opens a transaction at    *)
(* the server's default isolation level (READ COMMITTED), so               *)
(*   - a statement reads the rows committed when the statement runs;       *)
(*   - UPDATE and DELETE wait for a row another open transaction has       *)
(*     written and re-evaluate their WHERE clause once that transaction    *)
(*     has ended;                                                          *)
(*   - INSERT waits for an open transaction that holds the same unique key;*)
(*   - leaving the transaction block normally (a return included) commits, *)
(*     leaving it with an exception rolls back.                            *)
(* A process of the model is a worker serving one call at a time; its      *)
(* steps are the SQL statements of the service method called.  A call is   *)
(* shown from the step in which its first statement runs (a statement that *)
(* has to wait runs when the wait is over).                                *)
(*                                                                         *)
(* create_pool is called without init= and no codec is set on a connection,*)
(* so asyncpg binds and returns json/jsonb values as text: a str or None   *)
(* is accepted for such a parameter, any other Python value raises         *)
(* asyncpg.DataError before the statement is sent.                         *)
(***************************************************************************)
EXTENDS Integers, Sequences, FiniteSets, TLC

(* ---------------------------- bounds ----------------------------------- *)
MaxRegs  == 4      \* registration ids the store can hand out
MaxClock == 4      \* clock readings log_action can take

Procs    == {"p1", "p2"}                 \* requests served concurrently
\* The authenticated user (users.user_id) each worker's requests come from.
Session  == [p \in Procs |-> IF p = "p1" THEN "u1" ELSE "u2"]
Users    == {Session[p] : p \in Procs}
UrlTexts == {"https://a.example", "https://b.example/x"}

RegIds   == 1..MaxRegs

(* ---------------------------- values ----------------------------------- *)
NULL     == "null"     \* SQL NULL / Python None in a text or uuid column
NullTime == 0          \* SQL NULL / Python None in a timestamp column
NullId   == 0          \* Python None for a registration id

\* models.registration.RegistrationStatus
PENDING  == "Pending"
APPROVED == "Approved"
REJECTED == "Rejected"
RegistrationStatus == {PENDING, APPROVED, REJECTED}

\* A Python value handed to a json/jsonb parameter: a dict or None.
PyDict(items) == [type |-> "dict", items |-> items]
PyNone == [type |-> "None"]

\* What a json/jsonb column holds: an object, or SQL NULL.
JsonObject(items) == [type |-> "object", items |-> items]
JsonNull == [type |-> "null"]

\* models.audit_log.AuditAction
CREATED == "Created"
UPDATED == "Updated"
DELETED == "Deleted"
AuditAction == {CREATED, APPROVED, REJECTED, UPDATED, DELETED}

VARIABLES
    regs,      \* committed table registrations: registration_id -> row
    audit,     \* committed table audit_log, in commit order
    clock,     \* the reading the wall clock gives next
    pc,        \* per worker: the statement its call is about to run
    req,       \* per worker: the call being served and its arguments
    txn,       \* per worker: the open transaction (writes, fetched row)
    result,    \* per worker: what its last call returned or raised
    obs,       \* per worker: what the call's INSERT or UPDATE met (history)
    users,     \* committed table users: user_id -> row
    auth,      \* per worker: the request's token and the User resolved from it
    pool,      \* database._pool and how far the application's lifespan is
    query      \* per worker: the audit query being served and its outcome

vars == <<regs, audit, clock, pc, req, txn, result, obs, users, auth, pool, query>>

\* What the registration service never touches.
others == <<users, auth, pool, query>>

\* The same without the request's own authentication.
shared == <<users, pool, query>>

(* ------------------------ pure helpers --------------------------------- *)

\* str(HttpUrl): pydantic's normalisation of the submitted URL text; an
\* empty path becomes "/".
StrHttpUrl(u) == IF u = "https://a.example" THEN "https://a.example/" ELSE u

\* ins, upd: rows written; del: ids of the rows deleted; log: audit rows
\* written; row: the row the method fetched (its local `row`, from which
\* `registration` is built).
EmptyTxn == [ins |-> {}, upd |-> {}, del |-> {}, log |-> <<>>, row |-> {}]

NoReq == [op |-> "none", id |-> NullId, url |-> NULL, user |-> NULL,
          status |-> NULL]

\* What a service call gave its caller: kind is the type of the returned
\* value or of the exception ("pending" while the call runs), reg the
\* returned Registration, if any.
Kinds == {"pending", "Registration", "None", "True", "False",
          "ValueError", "UniqueViolationError", "DataError", "Exception"}

NoResult == [kind |-> "pending", reg |-> {}]

\* Rows an open transaction holds a row lock on.
LockIds(t) == {r.registration_id : r \in t.upd} \cup t.del

LockedByOther(p, id) == \E q \in Procs \ {p} : id \in LockIds(txn[q])

\* The unique index on registrations.endpoint_url finds u in a committed row.
UrlHeld(u) == \E id \in DOMAIN regs : regs[id].endpoint_url = u

\* Another open transaction has inserted u: an INSERT of u waits for it
\* (unique index on endpoint_url).
UrlBusy(p, u) ==
    \E q \in Procs \ {p} : \E r \in txn[q].ins : r.endpoint_url = u

\* Ids the store has handed out and that are still visible somewhere.
UsedIds ==
    DOMAIN regs
    \cup {audit[i].registration_id : i \in 1..Len(audit)}
    \cup UNION {{r.registration_id : r \in txn[q].ins} : q \in Procs}
    \cup UNION {{txn[q].log[i].registration_id : i \in 1..Len(txn[q].log)} : q \in Procs}

FreshIds == RegIds \ UsedIds

\* CURRENT_TIMESTAMP of a transaction: the reading of the server's clock
\* when the transaction starts, which need not be the application's.
DbNow == {clock, clock + 1}

\* The id the column default generates for a new row (an unused uuid).
NewId == CHOOSE i \in FreshIds : \A j \in FreshIds : i <= j

(* ----------------------- transaction endings --------------------------- *)

\* The committed registrations after transaction t commits.
CommitRegs(t) ==
    LET keep == (DOMAIN regs \cup {r.registration_id : r \in t.ins}) \ t.del
        rowOf(id) == IF \E r \in t.upd : r.registration_id = id
                     THEN CHOOSE r \in t.upd : r.registration_id = id
                     ELSE IF \E r \in t.ins : r.registration_id = id
                     THEN CHOOSE r \in t.ins : r.registration_id = id
                     ELSE regs[id]
    IN  [id \in keep |-> rowOf(id)]

\* The committed audit_log after transaction t commits.
CommitAudit(t) == audit \o t.log

(* ------------------------- users and tokens ---------------------------- *)

\* The 'sub' claims of the identities that sign in.
Subjects == {"s1", "s2"}

\* settings.entra_admin_group_id
entra_admin_group_id == "g-admin"

\* The 'groups' claims a token carries.
GroupClaims == {{"g-staff"}, {"g-staff", "g-admin"}}

\* The payload of a token: a claim that is absent is NULL (claims.get
\* gives None), "" is an empty claim.
Payload(sub, email, preferred_username, upn, unique_name, name, groups) ==
    [sub                |-> sub,
     email              |-> email,
     preferred_username |-> preferred_username,
     upn                |-> upn,
     unique_name        |-> unique_name,
     name               |-> name,
     groups             |-> groups]

\* The claims validate_token returns for a token it accepts: tokens with an
\* 'email' claim, a v2.0 token that names the user in preferred_username
\* only, a v1.0 token with an empty 'email' and a unique_name, one whose upn
\* is not an address, and one that names no address at all.
Claims ==
    {Payload(s, "a@x.example", NULL, NULL, NULL, NULL, g) :
        s \in Subjects, g \in GroupClaims}
    \cup {Payload(s, "b@x.example", NULL, NULL, NULL, "B", g) :
             s \in Subjects, g \in GroupClaims}
    \cup {Payload("s1", NULL, "b@x.example", NULL, NULL, "B", {"g-staff"}),
          Payload("s1", "", NULL, NULL, "a@x.example", NULL, {"g-staff"}),
          Payload("s2", NULL, NULL, "alice", NULL, NULL, {"g-staff"}),
          Payload("s2", NULL, NULL, NULL, NULL, "B", {"g-staff", "g-admin"})}

\* The texts pydantic's EmailStr accepts.
Emails == {"a@x.example", "b@x.example"}

\* The values the column default of users.user_id generates, in the order
\* they are handed out.
UserIdOrder == <<"u1", "u2", "u3">>
UserIds == {UserIdOrder[i] : i \in 1..Len(UserIdOrder)}

\* The column default of users.is_admin.
is_admin_default == FALSE

\* A row of users / the models.User built from it.  created_at and
\* updated_at are left out: nothing reads them.
UserRow(user_id, entra_id, email, display_name, is_admin) ==
    [user_id      |-> user_id,
     entra_id     |-> entra_id,
     email        |-> email,
     display_name |-> display_name,
     is_admin     |-> is_admin]

\* No request has been authenticated on the worker.  claims: the validated
\* claims; user: the User get_current_user holds, as a set of at most one;
\* stored: the is_admin the upsert returned; created: whether the upsert
\* inserted the row (both kept for analysis).
NoAuth == [claims |-> {}, user |-> {}, stored |-> {}, created |-> {}]

\* The users the workers' sessions belong to, as their sign-in left them.
SessionUsers ==
    [id \in Users |->
        UserRow(id, IF id = "u1" THEN "s1" ELSE "s2", "a@x.example", NULL, TRUE)]

\* database._pool after startup: the pool create_pool returned.
PoolReady == [phase |-> "ready", pool |-> "open"]

\* No audit query is being served.
NoPage == [kind |-> "none", args |-> {}, total |-> 0, results |-> <<>>]

\* What the registration lifecycle runs against: the application is up and
\* the sessions' users are signed in.
InitOthers ==
    /\ users = SessionUsers
    /\ auth = [p \in Procs |-> NoAuth]
    /\ pool = PoolReady
    /\ query = [p \in Procs |-> NoPage]

Init ==
    /\ regs = <<>>
    /\ audit = <<>>
    /\ clock = 1
    /\ pc = [p \in Procs |-> "done"]
    /\ req = [p \in Procs |-> NoReq]
    /\ txn = [p \in Procs |-> EmptyTxn]
    /\ result = [p \in Procs |-> NoResult]
    /\ obs = [p \in Procs |-> "none"]
    /\ InitOthers

\* The call r goes on to its next statement, at.
Continue(p, r, at) ==
    /\ req' = [req EXCEPT ![p] = r]
    /\ pc' = [pc EXCEPT ![p] = at]
    /\ result' = [result EXCEPT ![p] = NoResult]
    /\ UNCHANGED <<regs, audit, others>>

\* Raise with the transaction committed as it stands instead of rolled back.
RaiseWithoutRollback(p, kind) ==
    /\ regs' = CommitRegs(txn[p])
    /\ audit' = CommitAudit(txn[p])
    /\ txn' = [txn EXCEPT ![p] = EmptyTxn]
    /\ result' = [result EXCEPT ![p] = [kind |-> kind, reg |-> {}]]
    /\ pc' = [pc EXCEPT ![p] = "done"]
    /\ req' = [req EXCEPT ![p] = NoReq]
    /\ auth' = [auth EXCEPT ![p] = NoAuth]
    /\ UNCHANGED <<clock, shared>>

\* The call ends with an exception: whatever the transaction wrote is
\* discarded (ROLLBACK) and the exception reaches the caller.  The request
\* is over, and its User object gone with it.
Raise(p, kind) ==
    /\ txn' = [txn EXCEPT ![p] = EmptyTxn]
    /\ result' = [result EXCEPT ![p] = [kind |-> kind, reg |-> {}]]
    /\ pc' = [pc EXCEPT ![p] = "done"]
    /\ req' = [req EXCEPT ![p] = NoReq]
    /\ auth' = [auth EXCEPT ![p] = NoAuth]
    /\ UNCHANGED <<regs, audit, clock, shared>>

\* The transaction block is left normally with transaction t: COMMIT, and
\* the method returns the value of the given kind.  The request is over,
\* and its User object gone with it.
Return(p, t, kind) ==
    /\ regs' = CommitRegs(t)
    /\ audit' = CommitAudit(t)
    /\ txn' = [txn EXCEPT ![p] = EmptyTxn]
    /\ result' = [result EXCEPT ![p] =
                    [kind |-> kind,
                     reg  |-> IF kind = "Registration" THEN t.row ELSE {}]]
    /\ pc' = [pc EXCEPT ![p] = "done"]
    /\ req' = [req EXCEPT ![p] = NoReq]
    /\ auth' = [auth EXCEPT ![p] = NoAuth]
    /\ UNCHANGED <<clock, shared>>

\* Where a call stands inside its transaction block: before its UPDATE,
\* before the audit entry of a create, a decision or a deletion, before
\* the COMMIT that `return None` leads to; and after the audit entry:
\* before the COMMIT of `return registration`, before the DELETE, before
\* the COMMIT of a deletion.
InTxn == {"u_update", "c_log", "u_log", "u_none", "d_log",
          "commit", "d_delete", "d_return"}

\* A statement (or the COMMIT) raises: the transaction block is left with
\* the exception, ROLLBACK, and the service re-raises it.
Fault(p) ==
    /\ pc[p] \in InTxn
    /\ Raise(p, "Exception")
    /\ UNCHANGED obs

\* The first statement of a call raises: nothing was written.
FaultAtFirst(p) ==
    /\ pc[p] = "done"
    /\ Raise(p, "Exception")
    /\ obs' = [obs EXCEPT ![p] = "none"]

(* -------------------------- AuditService ------------------------------- *)

\* The row log_action inserts; log_id and timestamp are taken when it runs.
\* Only None gets as far as the table (see binds_as_json).
AuditRow(registration_id, user_id, action, previous_status, new_status, metadata) ==
    [log_id          |-> clock,
     registration_id |-> registration_id,
     user_id         |-> user_id,
     action          |-> action,
     previous_status |-> previous_status,
     new_status      |-> new_status,
     metadata        |-> JsonNull,
     timestamp       |-> clock]

\* Whether asyncpg can bind the Python value to $6, the json/jsonb column
\* metadata: with the text codec in place a str or None is bound, a dict
\* raises asyncpg.DataError (expected str, got dict) in fetchval.
binds_as_json(value) == value.type \in {"None", "str"}

\* AuditService.log_action on the request's connection: one INSERT INTO
\* audit_log inside the open transaction, stamped with datetime.utcnow().
\* Two calls never read the same instant.  t is the transaction as the
\* statements before the call left it, at the statement the caller goes on
\* with when log_action returns.  The DataError leaves the caller's
\* transaction block, which rolls back, and the caller re-raises it.
log_action(p, t, registration_id, user_id, action, previous_status, new_status, metadata, at) ==
    IF ~binds_as_json(metadata)
    THEN Raise(p, "DataError")
    ELSE /\ clock < MaxClock
         /\ txn' = [txn EXCEPT ![p] = [t EXCEPT !.log =
                      Append(@, AuditRow(registration_id, user_id, action,
                                         previous_status, new_status, metadata))]]
         /\ clock' = clock + 1
         /\ pc' = [pc EXCEPT ![p] = at]
         /\ UNCHANGED <<regs, audit, req, result, others>>

(* --------------- RegistrationService.create_registration --------------- *)

\* The endpoint_name and owner_contact submitted with an endpoint URL: one
\* payload for each URL text, as sequences of characters.
endpoint_name_of(endpoint_url) ==
    IF endpoint_url = "https://a.example/"
    THEN <<"A", "l", "p", "h", "a">> ELSE <<"B", "e", "t", "a">>

owner_contact_of(endpoint_url) ==
    IF endpoint_url = "https://a.example/"
    THEN <<"a", "@", "a", ".", "i", "o">> ELSE <<"b", "@", "b", ".", "i", "o">>

\* The row the INSERT stores: $1..$7 and the column defaults; created_at
\* is the instant of the INSERT.  The columns no statement filters or
\* orders by (description, available_tools, updated_at) are copied through
\* by every statement and are left out; the payloads submit no tools.
InsertedRow(registration_id, endpoint_url, submitter_id, now) ==
    [registration_id |-> registration_id,
     endpoint_url    |-> endpoint_url,
     endpoint_name   |-> endpoint_name_of(endpoint_url),
     owner_contact   |-> owner_contact_of(endpoint_url),
     status          |-> PENDING,
     submitter_id    |-> submitter_id,
     approver_id     |-> NULL,
     approved_at     |-> NullTime,
     created_at      |-> now]

\* What the INSERT met (kept for analysis): a committed row that holds the
\* URL, or none.
MetUrl(u) == IF UrlHeld(u) THEN "held" ELSE "free"

\* INSERT INTO registrations ... RETURNING ...: the first statement of the
\* transaction.  The Registration is built from the returned row.
create_insert(p, r) ==
    LET u == StrHttpUrl(r.url)
    IN
    /\ ~UrlBusy(p, u)
    /\ IF UrlHeld(u)
       THEN \* asyncpg.UniqueViolationError: rolled back and re-raised
            Raise(p, "UniqueViolationError")
       ELSE /\ FreshIds # {}
            /\ \E now \in DbNow :
                 LET row == InsertedRow(NewId, u, r.user, now)
                 IN  txn' = [txn EXCEPT ![p] =
                                [EmptyTxn EXCEPT !.ins = {row}, !.row = {row}]]
            /\ Continue(p, r, "c_log")
            /\ UNCHANGED clock
    /\ obs' = [obs EXCEPT ![p] = MetUrl(u)]

\* The call, by the user of the worker's session.
create_registration(p, u) ==
    /\ pc[p] = "done"
    /\ create_insert(p, [NoReq EXCEPT !.op = "create", !.url = u,
                                      !.user = Session[p]])

\* The metadata dict of the Created entry.
created_metadata(registration) ==
    PyDict([endpoint_url          |-> StrHttpUrl(registration.endpoint_url),
            endpoint_name         |-> registration.endpoint_name,
            owner_contact         |-> registration.owner_contact,
            available_tools_count |-> 0])

\* log_action(CREATED, previous_status=None, new_status=Pending,
\* metadata=metadata); after it the block is left and COMMIT follows.
create_log(p) ==
    /\ pc[p] = "c_log"
    /\ \E registration \in txn[p].row :
         log_action(p, txn[p], registration.registration_id, req[p].user,
                    CREATED, NULL, PENDING, created_metadata(registration),
                    "commit")
    /\ UNCHANGED obs

(* ----------- RegistrationService.update_registration_status ----------- *)

\* PendingRow with the status guard of the WHERE clause left out.
PendingRowAnyStatus(id) ==
    IF id \in DOMAIN regs THEN {regs[id]} ELSE {}

\* The row UPDATE ... WHERE registration_id = $3 AND status = 'Pending'
\* matches in the committed table, as a set of at most one row.
PendingRow(id) ==
    IF id \in DOMAIN regs /\ regs[id].status = PENDING THEN {regs[id]} ELSE {}

\* UpdatedRow with only the status column in the SET list.
UpdatedRowStatusOnly(row, new_status, approver_id, now) ==
    [row EXCEPT !.status = new_status]

\* SET status = $1, approver_id = $2, approved_at = CURRENT_TIMESTAMP
UpdatedRow(row, new_status, approver_id, now) ==
    [row EXCEPT !.status = new_status,
                !.approver_id = approver_id,
                !.approved_at = now]

\* What the conditional UPDATE met (kept for analysis; the code sees only
\* whether a row came back).
Met(id) == IF id \notin DOMAIN regs THEN "missing"
           ELSE IF regs[id].status # PENDING THEN "not_pending"
           ELSE "pending"

\* UPDATE registrations SET status, approver_id, approved_at ... RETURNING:
\* the first statement of the transaction.  Without a row the method goes
\* on to `return None`, with one to the audit entry.
update_exec(p, r) ==
    /\ ~LockedByOther(p, r.id)
    /\ obs' = [obs EXCEPT ![p] = Met(r.id)]
    /\ IF PendingRow(r.id) = {}
       THEN txn' = [txn EXCEPT ![p] = EmptyTxn]
       ELSE \E now \in DbNow :
              LET row == UpdatedRow(CHOOSE x \in PendingRow(r.id) : TRUE,
                                    r.status, r.user, now)
              IN  txn' = [txn EXCEPT ![p] =
                             [EmptyTxn EXCEPT !.upd = {row}, !.row = {row}]]
    /\ Continue(p, r, IF PendingRow(r.id) = {} THEN "u_none" ELSE "u_log")
    /\ UNCHANGED clock

\* update_registration_status without the guard on new_status.
update_registration_status_unguarded(p, registration_id, new_status) ==
    /\ pc[p] = "done"
    /\ update_exec(p, [NoReq EXCEPT !.op = "decide", !.id = registration_id,
                                   !.status = new_status, !.user = Session[p]])

\* The call; new_status = Pending raises ValueError before the try block,
\* so before any transaction is opened.
update_registration_status(p, registration_id, new_status) ==
    /\ pc[p] = "done"
    /\ IF new_status = PENDING
       THEN /\ Raise(p, "ValueError")
            /\ obs' = [obs EXCEPT ![p] = "none"]
       ELSE update_exec(p, [NoReq EXCEPT !.op = "decide", !.id = registration_id,
                                        !.status = new_status, !.user = Session[p]])

\* A call that was received and whose UPDATE has not run yet.
update_received(p) ==
    /\ pc[p] = "u_update"
    /\ update_exec(p, req[p])

\* `if not row: return None`: the block is left with nothing written,
\* COMMIT, and None is returned.
update_return_none(p) ==
    /\ pc[p] = "u_none"
    /\ Return(p, txn[p], "None")
    /\ UNCHANGED obs

\* The metadata dict of the Approved / Rejected entry; no reason is given.
decided_metadata(approver_id) ==
    PyDict([approver_id |-> approver_id, reason |-> NULL])

\* log_action(APPROVED | REJECTED, previous_status=Pending,
\* new_status=new_status, metadata=metadata); after it the block is left
\* and COMMIT follows.
update_log(p) ==
    /\ pc[p] = "u_log"
    /\ \E registration \in txn[p].row :
         log_action(p, txn[p], registration.registration_id, req[p].user,
                    IF req[p].status = APPROVED THEN APPROVED ELSE REJECTED,
                    PENDING, req[p].status, decided_metadata(req[p].user),
                    "commit")
    /\ UNCHANGED obs

(* --------------- RegistrationService.delete_registration --------------- *)

\* delete_select without the test of the fetched row: the audit entry is
\* written from whatever committed row there is, or from an empty one.
delete_select_unchecked(p, r) ==
    /\ txn' = [txn EXCEPT ![p] = [EmptyTxn EXCEPT !.row =
                 IF r.id \in DOMAIN regs THEN {regs[r.id]}
                 ELSE {InsertedRow(r.id, NULL, NULL, NullTime)}]]
    /\ Continue(p, r, "d_log")
    /\ UNCHANGED clock
    /\ obs' = [obs EXCEPT ![p] = "none"]

\* SELECT ... FROM registrations WHERE registration_id = $1;
\* without a row: return False.
delete_select(p, r) ==
    /\ IF r.id \notin DOMAIN regs
       THEN Return(p, EmptyTxn, "False")
       ELSE /\ txn' = [txn EXCEPT ![p] = [EmptyTxn EXCEPT !.row = {regs[r.id]}]]
            /\ Continue(p, r, "d_log")
            /\ UNCHANGED clock
    /\ obs' = [obs EXCEPT ![p] = "none"]

\* The call, by the user of the worker's session.
delete_registration(p, registration_id) ==
    /\ pc[p] = "done"
    /\ delete_select(p, [NoReq EXCEPT !.op = "delete", !.id = registration_id,
                                      !.user = Session[p]])

\* The metadata dict of the Deleted entry.
deleted_metadata(row, deleter_id) ==
    PyDict([endpoint_url    |-> row.endpoint_url,
            endpoint_name   |-> row.endpoint_name,
            previous_status |-> row.status,
            submitter_id    |-> row.submitter_id,
            approver_id     |-> row.approver_id,
            deleted_by      |-> deleter_id])

\* log_action(DELETED, previous_status=row["status"], new_status=None,
\* metadata=metadata); after it the DELETE follows.
delete_log(p) ==
    /\ pc[p] = "d_log"
    /\ \E row \in txn[p].row :
         log_action(p, txn[p], req[p].id, req[p].user, DELETED, row.status, NULL,
                    deleted_metadata(row, req[p].user), "d_delete")
    /\ UNCHANGED obs

\* delete_registration, lines 789-794: DELETE FROM registrations WHERE
\* registration_id = $1 inside the transaction, after the audit entry; the
\* statement waits for a row another transaction holds.  deleted_count is
\* the number of rows it removed.
delete_exec(p) ==
    /\ pc[p] = "d_delete"
    /\ ~LockedByOther(p, req[p].id)
    /\ txn' = [txn EXCEPT ![p].del = {req[p].id} \cap DOMAIN regs]
    /\ pc' = [pc EXCEPT ![p] = "d_return"]
    /\ UNCHANGED <<regs, audit, clock, req, result, obs, others>>

\* delete_registration, lines 796-801: True when deleted_count > 0, else
\* False; either way the block is left normally and the transaction, with
\* the Deleted entry, is committed.
delete_return(p) ==
    /\ pc[p] = "d_return"
    /\ Return(p, txn[p], IF Cardinality(txn[p].del) > 0 THEN "True" ELSE "False")
    /\ UNCHANGED obs

\* create_registration line 272, update_registration_status line 705:
\* `return registration` after the audit entry; the block is left normally
\* and the transaction is committed.
return_registration(p) ==
    /\ pc[p] = "commit"
    /\ Return(p, txn[p], "Registration")
    /\ UNCHANGED obs

(* ------------------------------ reads ---------------------------------- *)

\* RegistrationService.get_registration_by_id on a table: the Registration
\* as a set of at most one row; {} is None.
get_registration_by_id(table, registration_id) ==
    IF registration_id \in DOMAIN table THEN {table[registration_id]} ELSE {}

Min(a, b) == IF a <= b THEN a ELSE b

\* ORDER BY timestamp DESC over the selected audit rows.
OrderByTimestampDesc(rows) ==
    SortSeq(rows, LAMBDA x, y : x.timestamp > y.timestamp)

MaxLimit == 200

\* query_logs, line 138: both bounds given and the end before the start.
\* An absent bound is NullTime.
invalid_date_range(from_date, to_date) ==
    from_date # NullTime /\ to_date # NullTime /\ to_date < from_date

\* enforce_max_limit without the clamp.
enforce_max_limit_unclamped(limit) == limit

\* query_logs, line 142: limit = min(limit, 200)
enforce_max_limit(limit) == Min(limit, MaxLimit)

\* where_sql with the upper bound of the range exclusive.
where_sql_exclusive(e, registration_id, user_id, action, from_date, to_date) ==
    /\ registration_id # NullId => e.registration_id = registration_id
    /\ user_id # NULL => e.user_id = user_id
    /\ action # NULL => e.action = action
    /\ from_date # NullTime => e.timestamp >= from_date
    /\ to_date # NullTime => e.timestamp < to_date

\* The WHERE clause query_logs builds, on an audit row.  An absent filter
\* is NullId / NULL / NullTime; a filter applies when its value is truthy.
where_sql(e, registration_id, user_id, action, from_date, to_date) ==
    /\ registration_id # NullId => e.registration_id = registration_id
    /\ user_id # NULL => e.user_id = user_id
    /\ action # NULL => e.action = action
    /\ from_date # NullTime => e.timestamp >= from_date
    /\ to_date # NullTime => e.timestamp <= to_date

\* matching_rows over audit_log joined to registrations: the entries of a
\* registration that no longer exists are not selected.
matching_rows_joined(log, registration_id, user_id, action, from_date, to_date) ==
    SelectSeq(log, LAMBDA e :
        /\ where_sql(e, registration_id, user_id, action, from_date, to_date)
        /\ e.registration_id \in DOMAIN regs)

\* The rows of an audit_log table the WHERE clause keeps, in table order.
matching_rows(log, registration_id, user_id, action, from_date, to_date) ==
    SelectSeq(log, LAMBDA e :
        where_sql(e, registration_id, user_id, action, from_date, to_date))

\* count_query: SELECT COUNT(*) FROM audit_log WHERE ...
count_query(log, registration_id, user_id, action, from_date, to_date) ==
    Len(matching_rows(log, registration_id, user_id, action, from_date, to_date))

\* query: SELECT ... WHERE ... ORDER BY timestamp DESC LIMIT $n OFFSET $n+1
page_query(log, registration_id, user_id, action, from_date, to_date, limit, offset) ==
    LET ordered == OrderByTimestampDesc(
                       matching_rows(log, registration_id, user_id, action,
                                     from_date, to_date))
    IN  SubSeq(ordered, offset + 1, Min(offset + limit, Len(ordered)))

\* AuditService.query_logs when both of its statements read the same
\* audit_log table.
query_logs(log, registration_id, user_id, action, from_date, to_date, limit, offset) ==
    IF invalid_date_range(from_date, to_date)
    THEN [kind |-> "ValueError", results |-> <<>>, total |-> 0]
    ELSE [kind    |-> "ok",
          results |-> page_query(log, registration_id, user_id, action,
                                 from_date, to_date,
                                 enforce_max_limit(limit), offset),
          total   |-> count_query(log, registration_id, user_id, action,
                                  from_date, to_date)]

\* The arguments of a query_logs call.  tz tells whether the datetimes
\* given are of one kind ("naive": none carries an offset) or "mixed": one
\* of from_date and to_date carries an offset and the other does not.
QueryArgs(registration_id, user_id, action, from_date, to_date, limit, offset) ==
    [registration_id |-> registration_id,
     user_id         |-> user_id,
     action          |-> action,
     from_date       |-> from_date,
     to_date         |-> to_date,
     limit           |-> limit,
     offset          |-> offset,
     tz              |-> "naive"]

\* The same call with an offset on one of the two datetimes.
MixedTz(a) == [a EXCEPT !.tz = "mixed"]

\* query_logs, line 138: `to_date < from_date` is evaluated when both are
\* given; Python raises TypeError when one is offset-aware and the other
\* offset-naive.
range_test_raises(a) ==
    a.from_date # NullTime /\ a.to_date # NullTime /\ a.tz = "mixed"

\* str(e) of that TypeError.
TypeErrorText == "can't compare offset-naive and offset-aware datetimes"

\* query_logs up to its first statement: the range check, then the COUNT;
\* an invalid range raises ValueError before anything is read, and so does
\* the TypeError of the comparison.
query_logs_count(p, a) ==
    /\ IF range_test_raises(a)
       THEN /\ query' = [query EXCEPT ![p] =
                           [kind |-> "TypeError", args |-> {a},
                            total |-> 0, results |-> <<>>]]
            /\ result' = [result EXCEPT ![p] =
                             [kind |-> "TypeError", reg |-> {},
                              message |-> TypeErrorText]]
            /\ pc' = [pc EXCEPT ![p] = "done"]
            /\ auth' = [auth EXCEPT ![p] = NoAuth]
       ELSE IF invalid_date_range(a.from_date, a.to_date)
       THEN /\ query' = [query EXCEPT ![p] =
                           [kind |-> "ValueError", args |-> {a},
                            total |-> 0, results |-> <<>>]]
            /\ result' = [result EXCEPT ![p] = [kind |-> "ValueError", reg |-> {}]]
            /\ pc' = [pc EXCEPT ![p] = "done"]
            /\ auth' = [auth EXCEPT ![p] = NoAuth]
       ELSE /\ query' = [query EXCEPT ![p] =
                           [kind |-> "counted", args |-> {a},
                            total |-> count_query(audit, a.registration_id,
                                                  a.user_id, a.action,
                                                  a.from_date, a.to_date),
                            results |-> <<>>]]
            /\ result' = [result EXCEPT ![p] = NoResult]
            /\ pc' = [pc EXCEPT ![p] = "q_fetch"]
            /\ UNCHANGED auth
    /\ UNCHANGED <<regs, audit, clock, req, txn, obs, users, pool>>

\* The service call with the given arguments.
query_logs_call(p, a) ==
    /\ pc[p] = "done"
    /\ query_logs_count(p, a)

\* query_logs, second statement: the page; (results, total) is returned.
query_logs_fetch(p) ==
    /\ pc[p] = "q_fetch"
    /\ \E a \in query[p].args :
         query' = [query EXCEPT ![p].kind = "ok",
                                ![p].results =
                                    page_query(audit, a.registration_id, a.user_id,
                                               a.action, a.from_date, a.to_date,
                                               enforce_max_limit(a.limit), a.offset)]
    /\ result' = [result EXCEPT ![p] =
                     [kind |-> "Page", reg |-> {}, results |-> query'[p].results]]
    /\ pc' = [pc EXCEPT ![p] = "done"]
    /\ auth' = [auth EXCEPT ![p] = NoAuth]
    /\ UNCHANGED <<regs, audit, clock, req, txn, obs, users, pool>>

(* ------------------------ routers/registrations ------------------------ *)

\* str(e) of the exception a call raised: its message where the call's
\* outcome carries one, and the text the service raises it with otherwise.
ExcText(r, text) == IF "message" \in DOMAIN r THEN r.message ELSE text

\* create_registration_route without the handler for UniqueViolationError.
create_registration_route_no_conflict(r) ==
    IF r.kind = "Registration"
    THEN [status_code |-> 201, detail |-> NULL]
    ELSE [status_code |-> 500, detail |-> "Internal server error"]

\* POST /registrations: the response built from the service's outcome.
create_registration_route(r) ==
    IF r.kind = "Registration"
    THEN [status_code |-> 201, detail |-> NULL]
    ELSE IF r.kind = "UniqueViolationError"
    THEN [status_code |-> 409,
          detail |-> "Registration with this endpoint URL already exists"]
    ELSE [status_code |-> 500, detail |-> "Internal server error"]

\* PATCH /registrations/{id}/status: the response built from the outcome.
update_registration_status_route(r) ==
    IF r.kind = "Registration"
    THEN [status_code |-> 200, detail |-> NULL]
    ELSE IF r.kind = "None"
    THEN [status_code |-> 400,
          detail |-> "Registration is not in Pending status or does not exist"]
    ELSE IF r.kind = "ValueError"
    THEN [status_code |-> 400,
          detail |-> ExcText(r, "Cannot set status to Pending")]
    ELSE [status_code |-> 500, detail |-> "Internal server error"]

\* DELETE /registrations/{id}: the response built from the outcome.
delete_registration_route(r) ==
    IF r.kind = "True"
    THEN [status_code |-> 204, detail |-> NULL]
    ELSE IF r.kind = "False"
    THEN [status_code |-> 404, detail |-> "Registration not found"]
    ELSE [status_code |-> 500, detail |-> "Internal server error"]

\* schemas.registration.UpdateStatusRequest.validate_status_transition: the
\* value it returns, or the exception it raises.
validate_status_transition(v) ==
    IF v = PENDING THEN "ValueError" ELSE v

Next ==
    \E p \in Procs :
        \/ \E u \in UrlTexts : create_registration(p, u)
        \/ create_log(p)
        \/ \E id \in RegIds, s \in RegistrationStatus :
               update_registration_status(p, id, s)
        \/ update_return_none(p)
        \/ update_log(p)
        \/ \E id \in RegIds : delete_registration(p, id)
        \/ delete_log(p)
        \/ Fault(p)
        \/ FaultAtFirst(p)

(* ---------------- two decisions racing for one row --------------------- *)

\* A Pending registration exists (with its Created entry) and both workers
\* have received a decision for it, Approved or Rejected; neither UPDATE
\* has run.
InitRace ==
    \E t \in UrlTexts, s \in Users, ask \in [Procs -> {APPROVED, REJECTED}] :
        /\ regs = [id \in {1} |-> InsertedRow(1, StrHttpUrl(t), s, 1)]
        /\ audit = <<[log_id |-> 1, registration_id |-> 1, user_id |-> s,
                      action |-> CREATED, previous_status |-> NULL,
                      new_status |-> PENDING,
                      metadata |-> JsonObject([endpoint_url |-> StrHttpUrl(t)]),
                      timestamp |-> 1]>>
        /\ clock = 2
        /\ pc = [p \in Procs |-> "u_update"]
        /\ req = [p \in Procs |-> [NoReq EXCEPT !.op = "decide", !.id = 1,
                                     !.status = ask[p], !.user = Session[p]]]
        /\ txn = [p \in Procs |-> EmptyTxn]
        /\ result = [p \in Procs |-> NoResult]
        /\ obs = [p \in Procs |-> "none"]
        /\ InitOthers

NextRace ==
    \E p \in Procs :
        \/ update_received(p)
        \/ update_log(p)
        \/ Fault(p)

SpecRace == InitRace /\ [][NextRace]_vars

(* --------------------- UserService and dependencies -------------------- *)

\* bool(value) of a claim: None and "" are falsy.
Truthy(value) == value # NULL /\ value # ""

\* str(e) of an exception raised by the store or the driver.
Messages == {"connection refused", "relation audit_log does not exist"}

\* auth.extract_user_claims: email is claims.get("email") or
\* claims.get("preferred_username") or claims.get("upn") or
\* claims.get("unique_name"), the first truthy one, else the last.
extract_user_claims(claims) ==
    [entra_id     |-> claims.sub,
     email        |-> IF Truthy(claims.email) THEN claims.email
                      ELSE IF Truthy(claims.preferred_username)
                      THEN claims.preferred_username
                      ELSE IF Truthy(claims.upn) THEN claims.upn
                      ELSE claims.unique_name,
     display_name |-> claims.name]

\* Whether models.UserCreate accepts the fields: email is an EmailStr.
\* Otherwise pydantic raises ValidationError, a ValueError.
UserCreate_accepts(user_info) == user_info.email \in Emails

\* The ids of the rows ON CONFLICT (entra_id) finds for a subject.
UserBySubject(table, entra_id) ==
    {id \in DOMAIN table : table[id].entra_id = entra_id}

\* The user_id the column default generates for a new row.
NewUserId(table) ==
    UserIdOrder[CHOOSE i \in 1..Len(UserIdOrder) :
                  /\ UserIdOrder[i] \notin DOMAIN table
                  /\ \A j \in 1..(i - 1) : UserIdOrder[j] \in DOMAIN table]

\* A users table with one row put in place of the row of the same id.
WithUserRow(table, row) ==
    [id \in DOMAIN table \cup {row.user_id} |->
        IF id = row.user_id THEN row ELSE table[id]]

\* get_or_create_user as a plain INSERT, without ON CONFLICT (entra_id).
get_or_create_user_insert_only(table, user_create) ==
    LET row == UserRow(NewUserId(table), user_create.entra_id, user_create.email,
                       user_create.display_name, is_admin_default)
    IN  [table |-> WithUserRow(table, row), row |-> row]

\* get_or_create_user with is_admin in the column list: UserCreate.is_admin
\* (False unless given) is inserted and, on conflict, stored.
get_or_create_user_with_flag(table, user_create) ==
    LET hit == UserBySubject(table, user_create.entra_id)
        row == IF hit = {}
               THEN UserRow(NewUserId(table), user_create.entra_id,
                            user_create.email, user_create.display_name, FALSE)
               ELSE [table[CHOOSE id \in hit : TRUE] EXCEPT
                        !.email = user_create.email,
                        !.display_name = user_create.display_name,
                        !.is_admin = FALSE]
    IN  [table |-> WithUserRow(table, row), row |-> row]

\* UserService.get_or_create_user on a users table:
\* INSERT INTO users (entra_id, email, display_name) ... ON CONFLICT
\* (entra_id) DO UPDATE SET email, display_name ... RETURNING.  One
\* statement on a connection that is not in a transaction: it is atomic.
\* table: the table afterwards; row: the row returned.
get_or_create_user(table, user_create) ==
    LET hit == UserBySubject(table, user_create.entra_id)
        row == IF hit = {}
               THEN UserRow(NewUserId(table), user_create.entra_id,
                            user_create.email, user_create.display_name,
                            is_admin_default)
               ELSE [table[CHOOSE id \in hit : TRUE] EXCEPT
                        !.email = user_create.email,
                        !.display_name = user_create.display_name]
    IN  [table |-> WithUserRow(table, row), row |-> row]

\* UserService.update_admin_status on a users table:
\* UPDATE users SET is_admin = $1 WHERE user_id = $2
update_admin_status(table, user_id, is_admin) ==
    [id \in DOMAIN table |->
        IF id = user_id THEN [table[id] EXCEPT !.is_admin = is_admin]
        ELSE table[id]]

\* The request ends without a service call: the response of the given
\* kind; the request's User object is gone with it.
Respond(p, kind) ==
    /\ result' = [result EXCEPT ![p] = [kind |-> kind, reg |-> {}]]
    /\ pc' = [pc EXCEPT ![p] = "done"]
    /\ auth' = [auth EXCEPT ![p] = NoAuth]
    /\ UNCHANGED <<regs, audit, clock, req, txn, obs, users, pool, query>>

\* get_current_user: whether the token's groups hold the admin group.
token_is_admin(claims) ==
    IF entra_admin_group_id # "" THEN entra_admin_group_id \in claims.groups
    ELSE FALSE

\* A request arrives with a token validate_token accepts; get_current_user
\* upserts the user.  When the row's is_admin differs from the token's, the
\* UPDATE of update_admin_status is still to run.
get_current_user(p, claims) ==
    LET up == get_or_create_user(users, extract_user_claims(claims))
    IN
    /\ pc[p] = "done"
    /\ IF ~UserCreate_accepts(extract_user_claims(claims))
       THEN \* `except ValueError`: 401, before any statement is sent
            Respond(p, "HTTP401")
       ELSE /\ UserIds \ DOMAIN users # {}
            /\ users' = up.table
            /\ auth' = [auth EXCEPT ![p] =
                           [claims |-> {claims}, user |-> {up.row},
                            stored |-> {up.row.is_admin},
                            created |-> {UserBySubject(users, claims.sub) = {}}]]
            /\ pc' = [pc EXCEPT ![p] = IF up.row.is_admin # token_is_admin(claims)
                                       THEN "sync" ELSE "resolved"]
            /\ result' = [result EXCEPT ![p] = NoResult]
            /\ obs' = [obs EXCEPT ![p] = "none"]
            /\ query' = [query EXCEPT ![p] = NoPage]
            /\ UNCHANGED <<regs, audit, clock, req, txn, pool>>

\* get_current_user_sync without the UPDATE: only the User object is changed.
get_current_user_sync_local(p) ==
    /\ pc[p] = "sync"
    /\ \E claims \in auth[p].claims, user \in auth[p].user :
         auth' = [auth EXCEPT ![p].user =
                     {[user EXCEPT !.is_admin = token_is_admin(claims)]}]
    /\ pc' = [pc EXCEPT ![p] = "resolved"]
    /\ UNCHANGED <<regs, audit, clock, req, txn, result, obs, pool, query, users>>

\* get_current_user, lines 141-144: update_admin_status(user.user_id,
\* is_admin) and user.is_admin = is_admin.
get_current_user_sync(p) ==
    /\ pc[p] = "sync"
    /\ \E claims \in auth[p].claims, user \in auth[p].user :
         /\ users' = update_admin_status(users, user.user_id, token_is_admin(claims))
         /\ auth' = [auth EXCEPT ![p].user =
                        {[user EXCEPT !.is_admin = token_is_admin(claims)]}]
    /\ pc' = [pc EXCEPT ![p] = "resolved"]
    /\ UNCHANGED <<regs, audit, clock, req, txn, result, obs, pool, query>>

\* get_current_user, line 143, when the UPDATE of update_admin_status
\* raises: `except Exception` (157-163) answers 500.  The connection is not
\* in a transaction, so the upsert of line 138 was committed on its own and
\* the users table keeps it.
get_current_user_sync_raises(p, message) ==
    /\ pc[p] = "sync"
    /\ result' = [result EXCEPT ![p] =
                     [kind |-> "Exception", reg |-> {}, message |-> message,
                      endpoint |-> "get_current_user"]]
    /\ pc' = [pc EXCEPT ![p] = "done"]
    /\ auth' = [auth EXCEPT ![p] = NoAuth]
    /\ UNCHANGED <<regs, audit, clock, req, txn, obs, users, pool, query>>

\* require_admin without the test of is_admin.
require_admin_anyone(user) == "ok"

\* require_admin: HTTPException 403 unless current_user.is_admin.
require_admin(user) == IF ~user.is_admin THEN "HTTP403" ELSE "ok"

\* GET /users/me: any authenticated user gets the resolved User back.
get_my_profile(p) ==
    /\ pc[p] = "resolved"
    /\ Respond(p, "User")

\* POST /users: the route is declared with status_code=HTTP_201_CREATED;
\* the handler works out a status from the row's timestamps, leaves it in a
\* local and returns the UserResponse, which is sent with the declared
\* status.
create_or_update_user_route(user) == [status_code |-> 201, detail |-> NULL]

\* POST /users
create_or_update_user(p) ==
    /\ pc[p] = "resolved"
    /\ \E user \in auth[p].user :
         result' = [result EXCEPT ![p] =
                       [kind |-> "UserResponse", reg |-> {},
                        status_code |->
                            create_or_update_user_route(user).status_code]]
    /\ pc' = [pc EXCEPT ![p] = "done"]
    /\ auth' = [auth EXCEPT ![p] = NoAuth]
    /\ UNCHANGED <<regs, audit, clock, req, txn, obs, users, pool, query>>

\* PATCH /registrations/{id}/status behind require_admin, with a body the
\* request schema accepts.
patch_registration_status(p, registration_id, new_status) ==
    /\ pc[p] = "resolved"
    /\ validate_status_transition(new_status) = new_status
    /\ \E user \in auth[p].user :
         IF require_admin(user) = "HTTP403"
         THEN Respond(p, "HTTP403")
         ELSE update_exec(p, [NoReq EXCEPT !.op = "decide",
                                          !.id = registration_id,
                                          !.status = new_status,
                                          !.user = user.user_id])

\* DELETE /registrations/{id} behind require_admin.
delete_registration_endpoint(p, registration_id) ==
    /\ pc[p] = "resolved"
    /\ \E user \in auth[p].user :
         IF require_admin(user) = "HTTP403"
         THEN Respond(p, "HTTP403")
         ELSE delete_select(p, [NoReq EXCEPT !.op = "delete",
                                            !.id = registration_id,
                                            !.user = user.user_id])

\* The limit and offset the declared Query(ge=1, le=200) / Query(ge=0)
\* let through to the handler.
query_params_ok(limit, offset) ==
    limit >= 1 /\ limit <= 200 /\ offset >= 0

\* GET /audit-logs behind require_admin.
query_audit_logs(p, a) ==
    /\ pc[p] = "resolved"
    /\ query_params_ok(a.limit, a.offset)
    /\ \E user \in auth[p].user :
         IF require_admin(user) = "HTTP403"
         THEN Respond(p, "HTTP403")
         ELSE query_logs_count(p, a)

\* The rows of the page a query_logs outcome carries.
PageRows(r) == IF "results" \in DOMAIN r THEN r.results ELSE <<>>

\* AuditLogResponse(**result) accepts the row: metadata is Optional[Dict],
\* and a json/jsonb value that is not NULL arrives as its text, a str.
\* Otherwise pydantic raises ValidationError, a ValueError.
AuditLogResponse_accepts(row) == row.metadata.type = JsonNull.type

\* str(e) of that ValidationError.
ValidationErrorText ==
    "1 validation error for AuditLogResponse metadata Input should be a valid dictionary"

\* GET /audit-logs: the response built from the outcome.  The response
\* objects are built inside the try block, so a row AuditLogResponse
\* refuses is answered by `except ValueError`.
query_audit_logs_route(r) ==
    IF r.kind = "Page"
    THEN IF \A i \in 1..Len(PageRows(r)) : AuditLogResponse_accepts(PageRows(r)[i])
         THEN [status_code |-> 200, detail |-> NULL]
         ELSE [status_code |-> 400, detail |-> ValidationErrorText]
    ELSE IF r.kind = "ValueError"
    THEN [status_code |-> 400,
          detail |-> ExcText(r, "Invalid date range: end date must be after start date")]
    ELSE [status_code |-> 500,
          detail |-> <<"Failed to query audit logs: ", ExcText(r, "")>>]

\* make_admin.py: UPDATE users SET is_admin = true WHERE email = $1
make_admin(email) ==
    /\ users' = [id \in DOMAIN users |->
                    IF users[id].email = email
                    THEN [users[id] EXCEPT !.is_admin = TRUE] ELSE users[id]]
    /\ UNCHANGED <<regs, audit, clock, pc, req, txn, result, obs, auth, pool, query>>

\* The revocation the service documents:
\* UPDATE users SET is_admin = FALSE WHERE entra_id = '...'
revoke_admin(entra_id) ==
    /\ users' = [id \in DOMAIN users |->
                    IF users[id].entra_id = entra_id
                    THEN [users[id] EXCEPT !.is_admin = FALSE] ELSE users[id]]
    /\ UNCHANGED <<regs, audit, clock, pc, req, txn, result, obs, auth, pool, query>>

(* ------------------- sign-in and the users table ----------------------- *)

\* Nobody has signed in yet and there are no registrations.
InitUsers ==
    /\ regs = <<>>
    /\ audit = <<>>
    /\ clock = 1
    /\ pc = [p \in Procs |-> "done"]
    /\ req = [p \in Procs |-> NoReq]
    /\ txn = [p \in Procs |-> EmptyTxn]
    /\ result = [p \in Procs |-> NoResult]
    /\ obs = [p \in Procs |-> "none"]
    /\ users = <<>>
    /\ auth = [p \in Procs |-> NoAuth]
    /\ pool = PoolReady
    /\ query = [p \in Procs |-> NoPage]

NextUsers ==
    \/ \E p \in Procs :
        \/ \E claims \in Claims : get_current_user(p, claims)
        \/ get_current_user_sync(p)
        \/ \E message \in Messages : get_current_user_sync_raises(p, message)
        \/ get_my_profile(p)
        \/ create_or_update_user(p)
        \/ \E id \in RegIds : delete_registration_endpoint(p, id)
    \/ \E email \in Emails : make_admin(email)
    \/ \E entra_id \in Subjects : revoke_admin(entra_id)

SpecUsers == InitUsers /\ [][NextUsers]_vars

(* ------------------- database: the pool's lifecycle -------------------- *)

\* How far the application's lifespan is:
\*   "starting"  init_db_pool awaits asyncpg.create_pool
\*   "testing"   _pool is assigned, init_db_pool runs its test query
\*   "ready"     init_db_pool has returned, requests are served
\*   "closing"   close_db_pool awaits _pool.close()
\*   "closed"    close_db_pool has set _pool = None
\*   "failed"    init_db_pool has raised
\* and what _pool refers to: NULL for None, else the state of the
\* asyncpg.Pool object ("open", "closing").
Phases == {"starting", "testing", "ready", "closing", "closed", "failed"}

\* get_pool: the pool it returns, or RuntimeError when _pool is None.
get_pool(pl) == IF pl.pool = NULL THEN "RuntimeError" ELSE "Pool"

\* asyncpg.Pool.acquire on the pool _pool refers to: a connection, or
\* InterfaceError from a pool that is closing.
acquire(pl) == IF pl.pool = "open" THEN "Connection" ELSE "InterfaceError"

\* What stays as it is while the pool is set up, used and torn down.
NoStore == <<regs, audit, clock, req, txn, users, auth, query>>

\* init_db_pool, line 62: create_pool returns and _pool is assigned.
init_db_pool_create ==
    /\ pool.phase = "starting"
    /\ pool' = [phase |-> "testing", pool |-> "open"]
    /\ UNCHANGED <<NoStore, pc, result, obs>>

\* init_db_pool, lines 72-76: the test query succeeds and init returns;
\* the lifespan yields.
init_db_pool_test ==
    /\ pool.phase = "testing"
    /\ pool' = [pool EXCEPT !.phase = "ready"]
    /\ UNCHANGED <<NoStore, pc, result, obs>>

\* init_db_pool, lines 78-80: create_pool or the test query raises, and
\* init re-raises; _pool keeps what it was assigned.
init_db_pool_raises ==
    /\ pool.phase \in {"starting", "testing"}
    /\ pool' = [pool EXCEPT !.phase = "failed"]
    /\ UNCHANGED <<NoStore, pc, result, obs>>

\* close_db_pool, lines 92-94: _pool is set, whatever init_db_pool has done
\* since it assigned it, and _pool.close() is awaited; the pool stops
\* handing out connections.  A test query of init_db_pool that is still to
\* run meets the closing pool, so the lifespan goes no further than this.
close_db_pool_begin ==
    /\ pool.pool # NULL
    /\ pool' = [phase |-> "closing", pool |-> "closing"]
    /\ UNCHANGED <<NoStore, pc, result, obs>>

\* close_db_pool, line 95: every connection has been released, close()
\* returns and _pool = None.
close_db_pool_end ==
    /\ pool.phase = "closing"
    /\ \A p \in Procs : pc[p] \notin {"conn", "tx"}
    /\ pool' = [phase |-> "closed", pool |-> NULL]
    /\ UNCHANGED <<NoStore, pc, result, obs>>

\* close_db_pool, line 92: called while _pool is None, it does nothing.
close_db_pool_unset ==
    /\ pool.pool = NULL
    /\ pool' = [pool EXCEPT !.phase = IF @ = "starting" THEN @ ELSE "closed"]
    /\ UNCHANGED <<NoStore, pc, result, obs>>

\* get_db_connection: get_pool(), then pool.acquire().  obs keeps the phase
\* the call was made in.
get_db_connection(p) ==
    /\ pc[p] = "done"
    /\ obs' = [obs EXCEPT ![p] = pool.phase]
    /\ IF get_pool(pool) = "RuntimeError"
       THEN /\ result' = [result EXCEPT ![p] = [kind |-> "RuntimeError", reg |-> {}]]
            /\ UNCHANGED pc
       ELSE IF acquire(pool) = "InterfaceError"
       THEN /\ result' = [result EXCEPT ![p] = [kind |-> "InterfaceError", reg |-> {}]]
            /\ UNCHANGED pc
       ELSE /\ result' = [result EXCEPT ![p] = NoResult]
            /\ pc' = [pc EXCEPT ![p] = "conn"]
    /\ UNCHANGED <<NoStore, pool>>

\* fetch_one, fetch_all: the caller's SELECT runs on the connection and
\* returns its rows, or raises; either way `async with` gives the
\* connection back to the pool.
run_query(p) ==
    /\ pc[p] = "conn"
    /\ \E kind \in {"Rows", "Exception"} :
         result' = [result EXCEPT ![p] = [kind |-> kind, reg |-> {}]]
    /\ pc' = [pc EXCEPT ![p] = "done"]
    /\ UNCHANGED <<NoStore, pool, obs>>

\* The statements the helpers that write are called with.
UpdatePending ==
    "UPDATE registrations SET status = 'Approved' WHERE status = 'Pending'"
DeleteById ==
    "DELETE FROM registrations WHERE registration_id = $1"
InsertAudit ==
    "INSERT INTO audit_log (registration_id, user_id, action, new_status) VALUES ($1, 'u1', 'Created', 'Pending')"

Statements == {UpdatePending, DeleteById, InsertAudit}

\* The registration ids the statements are given: one that is stored at
\* startup and one that is not.
StatementIds == {1, 2}

\* The parameter tuples a statement is run with.
StatementArgs(statement) ==
    IF statement = UpdatePending THEN {<<>>}
    ELSE {<<id>> : id \in StatementIds}

\* The argument lists execute_many is given.
ArgsLists(statement) ==
    {<<>>}
    \cup {<<a>> : a \in StatementArgs(statement)}
    \cup {<<a, b>> : a, b \in StatementArgs(statement)}

\* What the store does with one statement.  store: the tables as the
\* statement sees them and the clock; the result is the tables afterwards
\* with the command status ("UPDATE 1", "DELETE 0", "INSERT 0 1").
run_statement(store, statement, args) ==
    IF statement = UpdatePending
    THEN LET hit == {id \in DOMAIN store.regs : store.regs[id].status = PENDING}
         IN  [regs   |-> [id \in DOMAIN store.regs |->
                            IF id \in hit
                            THEN [store.regs[id] EXCEPT !.status = APPROVED]
                            ELSE store.regs[id]],
              audit  |-> store.audit,
              clock  |-> store.clock,
              status |-> <<"UPDATE", Cardinality(hit)>>]
    ELSE IF statement = DeleteById
    THEN LET hit == {id \in DOMAIN store.regs : id = args[1]}
         IN  [regs   |-> [id \in DOMAIN store.regs \ hit |-> store.regs[id]],
              audit  |-> store.audit,
              clock  |-> store.clock,
              status |-> <<"DELETE", Cardinality(hit)>>]
    ELSE [regs   |-> store.regs,
          audit  |-> Append(store.audit,
                            [AuditRow(args[1], "u1", CREATED, NULL, PENDING, PyNone)
                                EXCEPT !.log_id = store.clock,
                                       !.timestamp = store.clock]),
          clock  |-> store.clock + 1,
          status |-> <<"INSERT", 0, 1>>]

\* Connection.executemany: the statement once for each tuple of args_list,
\* in order.
RECURSIVE run_statements(_, _, _)
run_statements(store, statement, args_list) ==
    IF args_list = <<>> THEN store
    ELSE run_statements(run_statement(store, statement, Head(args_list)),
                        statement, Tail(args_list))

\* The rows a statement changed or removed: it has to hold their row locks.
Touched(before, after) ==
    {id \in DOMAIN before : id \notin DOMAIN after \/ after[id] # before[id]}

\* execute: `return await conn.execute(query, *args)` on a connection of
\* its own.  The connection is not in a transaction, so the statement is
\* committed when it returns; the command status is the return value.  A
\* statement that raises changes nothing.  Either way the connection goes
\* back to the pool.
execute(p, statement, args) ==
    LET out == run_statement([regs |-> regs, audit |-> audit, clock |-> clock],
                             statement, args)
    IN
    /\ pc[p] = "conn"
    /\ \/ /\ out.clock <= MaxClock
          /\ \A id \in Touched(regs, out.regs) : ~LockedByOther(p, id)
          /\ regs' = out.regs
          /\ audit' = out.audit
          /\ clock' = out.clock
          /\ result' = [result EXCEPT ![p] =
                           [kind |-> "str", reg |-> {}, status |-> out.status]]
       \/ /\ result' = [result EXCEPT ![p] = [kind |-> "Exception", reg |-> {}]]
          /\ UNCHANGED <<regs, audit, clock>>
    /\ pc' = [pc EXCEPT ![p] = "done"]
    /\ UNCHANGED <<req, txn, users, auth, query, pool, obs>>

\* execute_many: `await conn.executemany(query, args_list)`; it returns
\* None.  asyncpg runs the batch atomically: when one of the executions
\* raises, none of them is kept.
execute_many(p, statement, args_list) ==
    LET out == run_statements([regs |-> regs, audit |-> audit, clock |-> clock],
                              statement, args_list)
    IN
    /\ pc[p] = "conn"
    /\ \/ /\ out.clock <= MaxClock
          /\ \A id \in Touched(regs, out.regs) : ~LockedByOther(p, id)
          /\ regs' = out.regs
          /\ audit' = out.audit
          /\ clock' = out.clock
          /\ result' = [result EXCEPT ![p] = [kind |-> "None", reg |-> {}]]
       \/ /\ result' = [result EXCEPT ![p] = [kind |-> "Exception", reg |-> {}]]
          /\ UNCHANGED <<regs, audit, clock>>
    /\ pc' = [pc EXCEPT ![p] = "done"]
    /\ UNCHANGED <<req, txn, users, auth, query, pool, obs>>

\* get_db_transaction, lines 132-134: on the connection get_db_connection
\* gave, conn.transaction() is entered (BEGIN) and the connection is
\* yielded to the caller's block.
get_db_transaction(p) ==
    /\ pc[p] = "conn"
    /\ pc' = [pc EXCEPT ![p] = "tx"]
    /\ UNCHANGED <<NoStore, pool, result, obs>>

\* The caller's block runs a statement on the yielded connection.  It sees
\* the committed tables with the transaction's own writes and takes the
\* locks of the rows it changes; nothing is committed yet.
get_db_transaction_execute(p, statement, args) ==
    LET out == run_statement([regs  |-> CommitRegs(txn[p]),
                              audit |-> CommitAudit(txn[p]),
                              clock |-> clock], statement, args)
    IN
    /\ pc[p] = "tx"
    /\ out.clock <= MaxClock
    /\ \A id \in Touched(CommitRegs(txn[p]), out.regs) : ~LockedByOther(p, id)
    /\ txn' = [txn EXCEPT ![p] =
                  [EmptyTxn EXCEPT
                     !.upd = {out.regs[id] : id \in
                                {i \in DOMAIN out.regs : out.regs[i] # regs[i]}},
                     !.del = DOMAIN regs \ DOMAIN out.regs,
                     !.log = SubSeq(out.audit, Len(audit) + 1, Len(out.audit))]]
    /\ clock' = out.clock
    /\ UNCHANGED <<regs, audit, pc, req, result, obs, users, auth, pool, query>>

\* The caller's block ends: conn.transaction() commits what the block
\* wrote and the connection goes back to the pool.
get_db_transaction_commit(p) ==
    /\ pc[p] = "tx"
    /\ Return(p, txn[p], "None")
    /\ UNCHANGED obs

\* The caller's block raises: conn.transaction() rolls back, nothing the
\* block wrote is kept, and the exception reaches the caller.
get_db_transaction_rollback(p) ==
    /\ pc[p] = "tx"
    /\ Raise(p, "Exception")
    /\ UNCHANGED obs

\* The process has been started; nothing has run.  The database holds a
\* Pending registration from an earlier run.
InitPool ==
    /\ regs = [id \in {1} |-> InsertedRow(1, StrHttpUrl("https://a.example"), "u1", 1)]
    /\ audit = <<>>
    /\ clock = 2
    /\ pc = [p \in Procs |-> "done"]
    /\ req = [p \in Procs |-> NoReq]
    /\ txn = [p \in Procs |-> EmptyTxn]
    /\ result = [p \in Procs |-> NoResult]
    /\ obs = [p \in Procs |-> "none"]
    /\ users = <<>>
    /\ auth = [p \in Procs |-> NoAuth]
    /\ pool = [phase |-> "starting", pool |-> NULL]
    /\ query = [p \in Procs |-> NoPage]

NextPool ==
    \/ init_db_pool_create
    \/ init_db_pool_test
    \/ init_db_pool_raises
    \/ close_db_pool_begin
    \/ close_db_pool_end
    \/ close_db_pool_unset
    \/ \E p \in Procs :
        \/ get_db_connection(p)
        \/ run_query(p)
        \/ \E statement \in Statements :
             \/ \E args \in StatementArgs(statement) : execute(p, statement, args)
             \/ \E args_list \in ArgsLists(statement) :
                    execute_many(p, statement, args_list)
             \/ \E args \in StatementArgs(statement) :
                    get_db_transaction_execute(p, statement, args)
        \/ get_db_transaction(p)
        \/ get_db_transaction_commit(p)
        \/ get_db_transaction_rollback(p)

SpecPool == InitPool /\ [][NextPool]_vars

(* ---------------------- the admin-only operations ----------------------- *)

\* The tokens of the two identities, with and without the admin group.
AdminClaims == {c \in Claims : c.email = "a@x.example"}

\* The audit query an admin page asks for: the newest entry.
AdminQueries ==
    {QueryArgs(NullId, NULL, NULL, NullTime, NullTime, 1, 0)}

\* Both identities have signed in before, neither as an admin, and a
\* Pending registration exists with its Created entry.
InitAdmin ==
    \E s \in {"u1"} :
        /\ regs = [id \in {1} |-> InsertedRow(1, StrHttpUrl("https://a.example"), s, 1)]
        /\ audit = <<[log_id |-> 1, registration_id |-> 1, user_id |-> s,
                      action |-> CREATED, previous_status |-> NULL,
                      new_status |-> PENDING,
                      metadata |-> JsonObject([endpoint_url |-> StrHttpUrl("https://a.example")]),
                      timestamp |-> 1]>>
        /\ clock = 2
        /\ pc = [p \in Procs |-> "done"]
        /\ req = [p \in Procs |-> NoReq]
        /\ txn = [p \in Procs |-> EmptyTxn]
        /\ result = [p \in Procs |-> NoResult]
        /\ obs = [p \in Procs |-> "none"]
        /\ users = [id \in Users |->
                       UserRow(id, IF id = "u1" THEN "s1" ELSE "s2",
                               "a@x.example", NULL, FALSE)]
        /\ auth = [p \in Procs |-> NoAuth]
        /\ pool = PoolReady
        /\ query = [p \in Procs |-> NoPage]

NextAdmin ==
    \E p \in Procs :
        \/ \E claims \in AdminClaims : get_current_user(p, claims)
        \/ get_current_user_sync(p)
        \/ \E message \in Messages : get_current_user_sync_raises(p, message)
        \/ \E id \in RegIds, s \in {APPROVED, REJECTED} :
               patch_registration_status(p, id, s)
        \/ \E id \in RegIds : delete_registration_endpoint(p, id)
        \/ \E a \in AdminQueries : query_audit_logs(p, a)
        \/ query_logs_fetch(p)
        \/ update_return_none(p)
        \/ update_log(p)
        \/ delete_log(p)
        \/ Fault(p)

SpecAdmin == InitAdmin /\ [][NextAdmin]_vars

\* The audit rows of one registration, in commit order.
EntriesOf(log, id) == SelectSeq(log, LAMBDA e : e.registration_id = id)

\* The Approved / Rejected rows of one registration.
Decisions(log, id) ==
    SelectSeq(log, LAMBDA e : e.registration_id = id
                              /\ e.action \in {APPROVED, REJECTED})

\* C1: when two decisions race for the same Pending registration and the
\* store does not fail, exactly one call returns the updated registration
\* and the other returns None; the stored row is the one the winner got
\* back, decided as the winner asked and by the winner, and the ledger
\* holds exactly one Approved/Rejected entry for the registration.
C1_ExactlyOneDecisionWins ==
    /\ [](((\A p \in Procs : pc[p] = "done" /\ result[p].kind # "Exception"))
          => \E w \in Procs :
                /\ result[w].kind = "Registration"
                /\ \A l \in Procs \ {w} : result[l].kind = "None"
                /\ result[w].reg = {regs[1]}
                /\ regs[1].approver_id = Session[w]
                /\ Len(Decisions(audit, 1)) = 1
                /\ Decisions(audit, 1)[1].user_id = Session[w]
                /\ Decisions(audit, 1)[1].new_status = regs[1].status)
    /\ [][\A p \in Procs :
            (pc[p] = "commit" /\ pc'[p] = "done" /\ result'[p].kind = "Registration")
            => /\ regs'[1].status = req[p].status
               /\ regs'[1].approver_id = req[p].user]_vars


(* ---------------------- queries over the ledger ------------------------ *)

MaxShort == 3      \* entries of the short ledgers a query starts from
MaxOver  == 1      \* entries beyond MaxLimit in the long ledgers

\* The worker that serves the audit queries; the other one serves writes.
Reader == "p1"

\* The i-th row of an audit_log that records registrations created by u1,
\* then decided and deleted by u2, one after the other: rows 3k-2, 3k-1,
\* 3k are those of registration k.  The rows of the decisions carry no
\* metadata.
HistoryEntry(i) ==
    LET id == (i + 2) \div 3
        url == StrHttpUrl("https://a.example")
        decided == IF id % 2 = 1 THEN APPROVED ELSE REJECTED
    IN  IF i % 3 = 1
        THEN [log_id |-> i, registration_id |-> id, user_id |-> "u1",
              action |-> CREATED, previous_status |-> NULL,
              new_status |-> PENDING,
              metadata |-> JsonObject([endpoint_url |-> url]), timestamp |-> i]
        ELSE IF i % 3 = 2
        THEN [log_id |-> i, registration_id |-> id, user_id |-> "u2",
              action |-> decided, previous_status |-> PENDING,
              new_status |-> decided,
              metadata |-> JsonNull, timestamp |-> i]
        ELSE [log_id |-> i, registration_id |-> id, user_id |-> "u2",
              action |-> DELETED, previous_status |-> decided,
              new_status |-> NULL,
              metadata |-> JsonObject([endpoint_url    |-> url,
                                       previous_status |-> decided,
                                       submitter_id    |-> "u1",
                                       approver_id     |-> "u2",
                                       deleted_by      |-> "u2"]),
              timestamp |-> i]

\* The audit_log after n such rows.
History(n) == [i \in 1..n |-> HistoryEntry(i)]

\* The registrations table after n such rows: the last registration, while
\* it is not deleted.
HistoryRegs(n) ==
    LET id == (n + 2) \div 3
        row == InsertedRow(id, StrHttpUrl("https://a.example"), "u1", 3 * (id - 1) + 1)
    IN  IF n % 3 = 0 THEN <<>>
        ELSE IF n % 3 = 1 THEN [k \in {id} |-> row]
        ELSE [k \in {id} |->
                 UpdatedRow(row, IF id % 2 = 1 THEN APPROVED ELSE REJECTED,
                            "u2", n)]

\* Ledgers a query starts from: short ones, and ones longer than the
\* largest page.
HistoryLens == (0..MaxShort) \cup ((MaxLimit + 1)..(MaxLimit + MaxOver))

\* Values from_date and to_date are drawn from.
RangeBounds == {NullTime, 2, 3}

\* The calls of query_logs the reader makes.
QueryInputs ==
    {QueryArgs(id, u, act, f, t, lim, off) :
        id \in {NullId, 1}, u \in {NULL, "u2"}, act \in {NULL, CREATED},
        f \in RangeBounds, t \in RangeBounds,
        lim \in {1, 2, MaxLimit + 1}, off \in {0, 1}}
    \cup {MixedTz(QueryArgs(NullId, NULL, NULL, f, t, 1, 0)) :
             f \in RangeBounds, t \in RangeBounds}

InitQuery ==
    \E n \in HistoryLens :
        /\ regs = HistoryRegs(n)
        /\ audit = History(n)
        /\ clock = n + 1
        /\ pc = [p \in Procs |-> "done"]
        /\ req = [p \in Procs |-> NoReq]
        /\ txn = [p \in Procs |-> EmptyTxn]
        /\ result = [p \in Procs |-> NoResult]
        /\ obs = [p \in Procs |-> "none"]
        /\ InitOthers

\* query_audit_logs, lines 121-128: the response is built from
\* (results, total) and sent, or the 400 is; the request is over.
query_audit_logs_return(p) ==
    /\ pc[p] = "done"
    /\ query[p].kind \in {"ok", "ValueError", "TypeError"}
    /\ query' = [query EXCEPT ![p] = NoPage]
    /\ result' = [result EXCEPT ![p] = NoResult]
    /\ UNCHANGED <<regs, audit, clock, pc, req, txn, obs, users, auth, pool>>

\* The reader serves one query at a time.
NextQuery ==
    \/ /\ query[Reader] = NoPage
       /\ \E a \in QueryInputs : query_logs_call(Reader, a)
    \/ query_logs_fetch(Reader)
    \/ query_audit_logs_return(Reader)
    \/ \E p \in Procs \ {Reader} :
           \/ \E u \in UrlTexts : create_registration(p, u)
           \/ create_log(p)

SpecQuery == InitQuery /\ [][NextQuery]_vars

(* ------------------ RegistrationService.get_registrations -------------- *)

\* Text columns and the search term are sequences of characters.
UpperCase == <<"A", "B", "C", "D", "E", "F", "G", "H", "I", "J", "K", "L", "M",
               "N", "O", "P", "Q", "R", "S", "T", "U", "V", "W", "X", "Y", "Z">>
LowerCase == <<"a", "b", "c", "d", "e", "f", "g", "h", "i", "j", "k", "l", "m",
               "n", "o", "p", "q", "r", "s", "t", "u", "v", "w", "x", "y", "z">>

\* The character with its case folded, as ILIKE compares it.
lower(c) ==
    IF \E i \in 1..Len(UpperCase) : UpperCase[i] = c
    THEN LowerCase[CHOOSE i \in 1..Len(UpperCase) : UpperCase[i] = c]
    ELSE c

\* text ILIKE pattern in PostgreSQL: % stands for any run of characters,
\* _ for any one character, a backslash takes the next character
\* literally, every other character stands for itself in either case.
RECURSIVE ilike(_, _)
ilike(text, pattern) ==
    IF pattern = <<>> THEN text = <<>>
    ELSE IF Head(pattern) = "%"
    THEN \/ ilike(text, Tail(pattern))
         \/ text # <<>> /\ ilike(Tail(text), pattern)
    ELSE IF Head(pattern) = "_"
    THEN text # <<>> /\ ilike(Tail(text), Tail(pattern))
    ELSE IF Head(pattern) = "\\" /\ Len(pattern) >= 2
    THEN /\ text # <<>>
         /\ lower(Head(text)) = lower(pattern[2])
         /\ ilike(Tail(text), Tail(Tail(pattern)))
    ELSE /\ text # <<>>
         /\ lower(Head(text)) = lower(Head(pattern))
         /\ ilike(Tail(text), Tail(pattern))

\* Python None / the empty string for the search term: both are falsy.
NoSearch == <<>>

\* params.append(f"%{search}%")
search_param(search) == <<"%">> \o search \o <<"%">>

\* The WHERE clause get_registrations builds, on a registrations row; a
\* filter applies when its value is truthy.
list_where(row, status, submitter_id, search) ==
    /\ status # NULL => row.status = status
    /\ submitter_id # NULL => row.submitter_id = submitter_id
    /\ search # NoSearch =>
           \/ ilike(row.endpoint_name, search_param(search))
           \/ ilike(row.owner_contact, search_param(search))

\* The rows of a registrations table the WHERE clause keeps.
list_matching(table, status, submitter_id, search) ==
    {table[id] : id \in {k \in DOMAIN table :
                            list_where(table[k], status, submitter_id, search)}}

\* SELECT COUNT(*) FROM registrations WHERE ...
list_count(table, status, submitter_id, search) ==
    Cardinality(list_matching(table, status, submitter_id, search))

\* ORDER BY created_at DESC over a set of rows.
RECURSIVE OrderByCreatedAtDesc(_)
OrderByCreatedAtDesc(S) ==
    IF S = {} THEN <<>>
    ELSE LET m == CHOOSE r \in S : \A q \in S : q.created_at <= r.created_at
         IN  <<m>> \o OrderByCreatedAtDesc(S \ {m})

\* SELECT ... WHERE ... ORDER BY created_at DESC LIMIT $n OFFSET $m
list_page(table, status, submitter_id, search, limit, offset) ==
    LET ordered == OrderByCreatedAtDesc(
                       list_matching(table, status, submitter_id, search))
    IN  SubSeq(ordered, offset + 1, Min(offset + limit, Len(ordered)))

\* get_registrations when both of its statements read the same table.
get_registrations(table, status, submitter_id, search, limit, offset) ==
    [total   |-> list_count(table, status, submitter_id, search),
     limit   |-> limit,
     offset  |-> offset,
     results |-> list_page(table, status, submitter_id, search, limit, offset)]

MaxListLimit == 1000
MaxMyLimit   == 100

\* list_params_ok without the bounds on limit and offset.
list_params_any(limit, offset) == TRUE

\* GET /registrations: Query(10, ge=1, le=1000) and Query(0, ge=0)
list_params_ok(limit, offset) ==
    limit >= 1 /\ limit <= MaxListLimit /\ offset >= 0

\* GET /registrations/my: Query(10, ge=1, le=100) and Query(0, ge=0)
my_params_ok(limit, offset) ==
    limit >= 1 /\ limit <= MaxMyLimit /\ offset >= 0

\* The arguments of a get_registrations call.
ListArgs(status, submitter_id, search, limit, offset) ==
    [status       |-> status,
     submitter_id |-> submitter_id,
     search       |-> search,
     limit        |-> limit,
     offset       |-> offset]

\* get_registrations up to its first statement, the COUNT.
get_registrations_count(p, a) ==
    /\ query' = [query EXCEPT ![p] =
                    [kind |-> "counted", args |-> {a},
                     total |-> list_count(regs, a.status, a.submitter_id,
                                          a.search),
                     results |-> <<>>]]
    /\ result' = [result EXCEPT ![p] = NoResult]
    /\ pc' = [pc EXCEPT ![p] = "l_fetch"]
    /\ UNCHANGED <<regs, audit, clock, req, txn, obs, users, auth, pool>>

\* The request is refused by the validation of its query parameters (422)
\* before the handler runs.
RequestValidationError(p, a) ==
    /\ query' = [query EXCEPT ![p] =
                    [kind |-> "HTTP422", args |-> {a}, total |-> 0,
                     results |-> <<>>]]
    /\ result' = [result EXCEPT ![p] = [kind |-> "HTTP422", reg |-> {}]]
    /\ auth' = [auth EXCEPT ![p] = NoAuth]
    /\ UNCHANGED <<regs, audit, clock, pc, req, txn, obs, users, pool>>

\* GET /registrations
list_registrations(p, a) ==
    /\ pc[p] = "done"
    /\ IF list_params_ok(a.limit, a.offset)
       THEN get_registrations_count(p, a)
       ELSE RequestValidationError(p, a)

\* GET /registrations/my: the caller's own registrations.
get_my_registrations(p, limit, offset) ==
    /\ pc[p] = "done"
    /\ LET a == ListArgs(NULL, Session[p], NoSearch, limit, offset)
       IN  IF my_params_ok(limit, offset)
           THEN get_registrations_count(p, a)
           ELSE RequestValidationError(p, a)

\* get_registrations, second statement: the page; the dict is returned.
get_registrations_fetch(p) ==
    /\ pc[p] = "l_fetch"
    /\ \E a \in query[p].args :
         query' = [query EXCEPT ![p].kind = "listed",
                                ![p].results =
                                    list_page(regs, a.status, a.submitter_id,
                                              a.search, a.limit, a.offset)]
    /\ result' = [result EXCEPT ![p] = [kind |-> "Page", reg |-> {}]]
    /\ pc' = [pc EXCEPT ![p] = "done"]
    /\ auth' = [auth EXCEPT ![p] = NoAuth]
    /\ UNCHANGED <<regs, audit, clock, req, txn, obs, users, pool>>

\* list_registrations, lines 283-308: the RegistrationListResponse is built
\* and sent, or the 422 is; the request is over.
list_registrations_return(p) ==
    /\ pc[p] = "done"
    /\ query[p].kind \in {"listed", "HTTP422"}
    /\ query' = [query EXCEPT ![p] = NoPage]
    /\ result' = [result EXCEPT ![p] = NoResult]
    /\ UNCHANGED <<regs, audit, clock, pc, req, txn, obs, users, auth, pool>>

(* ------------------------ lists over a seeded table -------------------- *)

\* "OpenAI MCP Server", "Weather Server", "100% Up"
SeedNames ==
    <<  <<"O", "p", "e", "n", "A", "I", " ", "M", "C", "P", " ",
          "S", "e", "r", "v", "e", "r">>,
        <<"W", "e", "a", "t", "h", "e", "r", " ", "S", "e", "r", "v", "e", "r">>,
        <<"1", "0", "0", "%", " ", "U", "p">>  >>

\* "ai@a.io", "wx@b.io", "x_y@a.io"
SeedContacts ==
    <<  <<"a", "i", "@", "a", ".", "i", "o">>,
        <<"w", "x", "@", "b", ".", "i", "o">>,
        <<"x", "_", "y", "@", "a", ".", "i", "o">>  >>

SeedIds == 1..Len(SeedNames)

\* The seeded registrations are submitted in the order of their ids, by u1
\* and u2 in turn; the first one has been approved by u2 since.
SeedSubmitter(id) == IF id % 2 = 1 THEN "u1" ELSE "u2"

SeedUrl(id) == IF id = 1 THEN "https://a.example/"
               ELSE IF id = 2 THEN "https://b.example/x"
               ELSE "https://c.example/"

\* The seeded row of id in a table that holds the seeds S: created_at is
\* the instant of its Created entry.
SeedRow(id, S) ==
    LET at == Cardinality({k \in S : k <= id})
        row == [registration_id |-> id,
                endpoint_url    |-> SeedUrl(id),
                endpoint_name   |-> SeedNames[id],
                owner_contact   |-> SeedContacts[id],
                status          |-> PENDING,
                submitter_id    |-> SeedSubmitter(id),
                approver_id     |-> NULL,
                approved_at     |-> NullTime,
                created_at      |-> at]
    IN  IF id = 1
        THEN [row EXCEPT !.status = APPROVED, !.approver_id = "u2",
                         !.approved_at = Cardinality(S) + 1]
        ELSE row

\* The audit_log of that table: the Created entries in the order of the
\* ids, then the decision on the first registration.
SeedAudit(S) ==
    LET n == Cardinality(S)
        idAt(k) == CHOOSE id \in S : Cardinality({j \in S : j <= id}) = k
        created == [k \in 1..n |->
                      [log_id |-> k, registration_id |-> idAt(k),
                       user_id |-> SeedSubmitter(idAt(k)),
                       action |-> CREATED, previous_status |-> NULL,
                       new_status |-> PENDING,
                       metadata |-> JsonObject([endpoint_url |-> SeedUrl(idAt(k))]),
                       timestamp |-> k]]
    IN  IF 1 \in S
        THEN Append(created,
                    [log_id |-> n + 1, registration_id |-> 1, user_id |-> "u2",
                     action |-> APPROVED, previous_status |-> PENDING,
                     new_status |-> APPROVED,
                     metadata |-> JsonNull, timestamp |-> n + 1])
        ELSE created

\* Search terms: "openai", "SERVER", "a.io", "zz", "%", "_", "0%", "x_y".
Searches ==
    {NoSearch,
     <<"o", "p", "e", "n", "a", "i">>,
     <<"S", "E", "R", "V", "E", "R">>,
     <<"a", ".", "i", "o">>,
     <<"z", "z">>,
     <<"%">>,
     <<"_">>,
     <<"0", "%">>,
     <<"x", "_", "y">>}

ListLimits == {0, 1, 2, MaxMyLimit + 1, MaxListLimit, MaxListLimit + 1}
ListOffsets == {-1, 0, 1}

\* The requests of GET /registrations the reader serves.
ListInputs ==
    {ListArgs(st, u, q, lim, off) :
        st \in {NULL, PENDING, APPROVED}, u \in {NULL, "u1"}, q \in Searches,
        lim \in ListLimits, off \in ListOffsets}

\* The seeds that may have been deleted since, while Pending.
GoneSeeds == {2}

\* The audit_log of a table that holds the seeds S, and has held the seed
\* of G, submitted and deleted after the others: its Created and Deleted
\* entries follow.
SeedAuditGone(S, G) ==
    LET n == Len(SeedAudit(S))
        SeedGone == CHOOSE id \in GoneSeeds : G = {} \/ id \in G
    IN
    IF G = {} THEN SeedAudit(S)
    ELSE SeedAudit(S) \o
         <<[log_id |-> n + 1, registration_id |-> SeedGone,
            user_id |-> SeedSubmitter(SeedGone),
            action |-> CREATED, previous_status |-> NULL,
            new_status |-> PENDING,
            metadata |-> JsonObject([endpoint_url |-> SeedUrl(SeedGone)]),
            timestamp |-> n + 1],
           [log_id |-> n + 2, registration_id |-> SeedGone, user_id |-> "u2",
            action |-> DELETED, previous_status |-> PENDING,
            new_status |-> NULL,
            metadata |-> JsonObject([endpoint_url    |-> SeedUrl(SeedGone),
                                     endpoint_name   |-> SeedNames[SeedGone],
                                     previous_status |-> PENDING,
                                     submitter_id    |-> SeedSubmitter(SeedGone),
                                     approver_id     |-> NULL,
                                     deleted_by      |-> "u2"]),
            timestamp |-> n + 2]>>

InitList ==
    \E S \in SUBSET SeedIds : \E G \in SUBSET (GoneSeeds \ S) :
        /\ regs = [id \in S |-> SeedRow(id, S)]
        /\ audit = SeedAuditGone(S, G)
        /\ clock = Len(SeedAuditGone(S, G)) + 1
        /\ pc = [p \in Procs |-> "done"]
        /\ req = [p \in Procs |-> NoReq]
        /\ txn = [p \in Procs |-> EmptyTxn]
        /\ result = [p \in Procs |-> NoResult]
        /\ obs = [p \in Procs |-> "none"]
        /\ InitOthers

\* The reader serves one request at a time.
NextList ==
    \/ /\ query[Reader] = NoPage
       /\ \/ \E a \in ListInputs : list_registrations(Reader, a)
          \/ \E lim \in ListLimits, off \in ListOffsets :
                 get_my_registrations(Reader, lim, off)
    \/ get_registrations_fetch(Reader)
    \/ list_registrations_return(Reader)

SpecList == InitList /\ [][NextList]_vars

\* The lifecycle calls over the seeded tables.
Spec == InitList /\ [][Next]_vars

\* The lifecycle calls with the statements that follow the audit entry in
\* the source: the COMMIT of a create or a decision, the DELETE and the
\* COMMIT of a deletion.
NextService ==
    \/ Next
    \/ \E p \in Procs :
        \/ return_registration(p)
        \/ delete_exec(p)
        \/ delete_return(p)

SpecService == InitList /\ [][NextService]_vars

\* Every call site hands log_action a dict, which the connection cannot
\* bind: no call gets past its audit entry, so none of the statements that
\* follow it runs and the committed tables stay as they are.
AuditEntryEndsTheCall ==
    /\ [](\A p \in Procs : pc[p] \notin {"commit", "d_delete", "d_return"})
    /\ [][regs' = regs /\ audit' = audit]_vars

(* ----------------- reads next to in-flight mutations ------------------- *)

\* get_registration_by_url with the argument normalised the way a submitted
\* URL is before it is stored.
get_registration_by_url_normalised(table, endpoint_url) ==
    {table[id] : id \in {k \in DOMAIN table :
                            table[k].endpoint_url = StrHttpUrl(endpoint_url)}}

\* RegistrationService.get_registration_by_url on a table:
\* SELECT ... FROM registrations WHERE endpoint_url = $1, as a set of at
\* most one row; {} is None.
get_registration_by_url(table, endpoint_url) ==
    {table[id] : id \in {k \in DOMAIN table :
                            table[k].endpoint_url = endpoint_url}}

\* What a lookup gives its caller.
Found(rows) ==
    IF rows = {} THEN [kind |-> "None", reg |-> {}]
    ELSE [kind |-> "Registration", reg |-> rows]

\* get_registration_by_id_call that also writes an audit entry for the
\* access, outside any transaction.
get_registration_by_id_logged(p, registration_id) ==
    /\ pc[p] = "done"
    /\ req' = [req EXCEPT ![p] = [NoReq EXCEPT !.op = "get_by_id",
                                               !.id = registration_id]]
    /\ result' = [result EXCEPT ![p] =
                     Found(get_registration_by_id(regs, registration_id))]
    /\ audit' = Append(audit, AuditRow(registration_id, Session[p], UPDATED,
                                       NULL, NULL, <<>>))
    /\ UNCHANGED <<regs, clock, pc, txn, obs, others>>

\* The service call get_registration_by_id: one SELECT.
get_registration_by_id_call(p, registration_id) ==
    /\ pc[p] = "done"
    /\ req' = [req EXCEPT ![p] = [NoReq EXCEPT !.op = "get_by_id",
                                               !.id = registration_id]]
    /\ result' = [result EXCEPT ![p] =
                     Found(get_registration_by_id(regs, registration_id))]
    /\ UNCHANGED <<regs, audit, clock, pc, txn, obs, others>>

\* The service call get_registration_by_url: one SELECT.
get_registration_by_url_call(p, endpoint_url) ==
    /\ pc[p] = "done"
    /\ req' = [req EXCEPT ![p] = [NoReq EXCEPT !.op = "get_by_url",
                                               !.url = endpoint_url]]
    /\ result' = [result EXCEPT ![p] =
                     Found(get_registration_by_url(regs, endpoint_url))]
    /\ UNCHANGED <<regs, audit, clock, pc, txn, obs, others>>

\* GET /registrations/{registration_id} and GET /registrations/by-url:
\* the response built from what the lookup gave.
get_registration_route(r) ==
    IF r.kind = "Registration"
    THEN [status_code |-> 200, detail |-> NULL]
    ELSE IF r.kind = "None"
    THEN [status_code |-> 404, detail |-> "Registration not found"]
    ELSE [status_code |-> 500, detail |-> "Internal server error"]

get_registration_by_url_route(r) ==
    IF r.kind = "Registration"
    THEN [status_code |-> 200, detail |-> NULL]
    ELSE IF r.kind = "None"
    THEN [status_code |-> 404,
          detail |-> "No registration found for the given endpoint URL."]
    ELSE [status_code |-> 500, detail |-> "Internal server error"]

\* The URLs looked up: the stored ones, a submitted text before its
\* normalisation, and a stored one in another case.
LookupUrls ==
    {SeedUrl(id) : id \in SeedIds}
    \cup {"https://a.example", "https://A.example/"}

ReadLists ==
    {ListArgs(NULL, NULL, NoSearch, 2, 0),
     ListArgs(PENDING, NULL, <<"e", "r">>, 1, 1)}

ReadQueries ==
    {QueryArgs(NullId, NULL, NULL, NullTime, NullTime, 2, 0),
     QueryArgs(2, NULL, NULL, NullTime, 3, 1, 1)}

\* The reader's lookups and queries run next to the decisions and
\* deletions of the other worker, over the seeded tables.
NextReads ==
    \/ /\ query[Reader] = NoPage
       /\ \/ \E id \in SeedIds : get_registration_by_id_call(Reader, id)
          \/ \E u \in LookupUrls : get_registration_by_url_call(Reader, u)
          \/ \E a \in ReadLists : list_registrations(Reader, a)
          \/ \E a \in ReadQueries : query_logs_call(Reader, a)
    \/ get_registrations_fetch(Reader)
    \/ list_registrations_return(Reader)
    \/ query_logs_fetch(Reader)
    \/ query_audit_logs_return(Reader)
    \/ \E p \in Procs \ {Reader} :
           \/ \E id \in SeedIds, st \in {APPROVED, REJECTED} :
                  update_registration_status(p, id, st)
           \/ \E id \in SeedIds : delete_registration(p, id)
           \/ update_return_none(p)
           \/ update_log(p)
           \/ delete_log(p)
           \/ Fault(p)

SpecReads == InitList /\ [][NextReads]_vars

(* ------------------ the routes of the registrations router ------------ *)

\* The routes of routers/registrations.py in the order they are declared,
\* paths relative to the prefix /registrations, as sequences of segments.
Routes ==
    <<[method |-> "POST",   path |-> <<>>,
       endpoint |-> "create_registration"],
      [method |-> "GET",    path |-> <<>>,
       endpoint |-> "list_registrations"],
      [method |-> "GET",    path |-> <<"my">>,
       endpoint |-> "get_my_registrations"],
      [method |-> "GET",    path |-> <<"{registration_id}">>,
       endpoint |-> "get_registration"],
      [method |-> "GET",    path |-> <<"by-url">>,
       endpoint |-> "get_registration_by_url"],
      [method |-> "PATCH",  path |-> <<"{registration_id}", "status">>,
       endpoint |-> "update_registration_status"],
      [method |-> "DELETE", path |-> <<"{registration_id}">>,
       endpoint |-> "delete_registration"]>>

\* A path parameter: its segment of the route matches any segment of the
\* request path.
IsParam(segment) == segment \in {"{registration_id}", "{user_id}"}

\* The route's path regex matches the request path.
path_matches(pattern, path) ==
    /\ Len(pattern) = Len(path)
    /\ \A i \in 1..Len(pattern) : IsParam(pattern[i]) \/ pattern[i] = path[i]

\* The segments that are the text of a UUID, and the id they denote.
UuidTexts == {"1", "2"}

\* registration_id: UUID (user_id: UUID) of the matched route is parsed
\* from its segment.
params_valid(pattern, path) ==
    \A i \in 1..Len(pattern) : IsParam(pattern[i]) => path[i] \in UuidTexts

\* Route matching as the application's router does it over the routes of
\* one router: the first declared route whose path and method match handles
\* the request; a path that matches only routes of other methods gives 405,
\* no match 404.
resolve(routes, method, path) ==
    LET full == {i \in 1..Len(routes) :
                    /\ path_matches(routes[i].path, path)
                    /\ routes[i].method = method}
        partial == {i \in 1..Len(routes) : path_matches(routes[i].path, path)}
    IN  IF full # {}
        THEN LET i == CHOOSE k \in full : \A j \in full : k <= j
             IN  [endpoint |-> routes[i].endpoint,
                  kind |-> IF params_valid(routes[i].path, path)
                           THEN "pending" ELSE "HTTP422"]
        ELSE IF partial # {}
        THEN [endpoint |-> "none", kind |-> "HTTP405"]
        ELSE [endpoint |-> "none", kind |-> "HTTP404"]

Methods == {"GET", "POST", "PATCH", "DELETE"}

\* Request paths below /registrations.
Paths == {<<>>, <<"my">>, <<"by-url">>, <<"1">>, <<"2">>,
          <<"1", "status">>, <<"my", "status">>, <<"1", "2", "status">>}

\* The routers of the package and the first segment of the paths they
\* declare: the prefix of the router, and for routers/health.py, which has
\* none, its one path /health.
RouterPrefix ==
    [health        |-> "/health",
     users         |-> "/users",
     registrations |-> "/registrations",
     audit_logs    |-> "/audit-logs"]

\* main.py: app.include_router(health.router), (users.router),
\* (registrations.router)
included_routers == {"health", "users", "registrations"}

\* The routes of routers/users.py, relative to its prefix.
UserRoutes ==
    <<[method |-> "POST", path |-> <<>>,
       endpoint |-> "create_or_update_user"],
      [method |-> "GET",  path |-> <<"me">>,
       endpoint |-> "get_my_profile"],
      [method |-> "GET",  path |-> <<"{user_id}">>,
       endpoint |-> "get_user_by_id"]>>

\* The route of routers/health.py.
HealthRoutes ==
    <<[method |-> "GET", path |-> <<>>, endpoint |-> "health_check"]>>

\* The routes of routers/audit_logs.py, relative to its prefix.
AuditRoutes ==
    <<[method |-> "GET", path |-> <<>>, endpoint |-> "query_audit_logs"]>>

\* main.py, @app.get("/"): the route the application declares itself.
AppRoutes ==
    <<[method |-> "GET", path |-> <<>>, endpoint |-> "root"]>>

\* The routes each router declares.
RouterRoutes ==
    [health        |-> HealthRoutes,
     users         |-> UserRoutes,
     registrations |-> Routes,
     audit_logs    |-> AuditRoutes]

\* Route matching of the application: only the routes of an included
\* router, and the application's own, exist.
app_resolve(prefix, method, path) ==
    LET served == {r \in included_routers : RouterPrefix[r] = prefix}
    IN  IF prefix = "/"
        THEN resolve(AppRoutes, method, path)
        ELSE IF served = {}
        THEN [endpoint |-> "none", kind |-> "HTTP404"]
        ELSE resolve(RouterRoutes[CHOOSE r \in served : TRUE], method, path)

\* The requests sent: every path below /registrations, the paths of
\* /users, /health and /audit-logs.
Requests ==
    {[prefix |-> RouterPrefix.registrations, path |-> path] : path \in Paths}
    \cup {[prefix |-> RouterPrefix.users, path |-> path] :
             path \in {<<>>, <<"me">>, <<"1">>}}
    \cup {[prefix |-> RouterPrefix.health, path |-> <<>>],
          [prefix |-> RouterPrefix.audit_logs, path |-> <<>>]}

\* An authenticated request arrives and is matched against the routes: the
\* endpoint chosen and the outcome of parsing its path parameters.
route_request(p, prefix, method, path) ==
    /\ pc[p] = "done"
    /\ LET r == app_resolve(prefix, method, path)
       IN  /\ req' = [req EXCEPT ![p] =
                         [op |-> r.endpoint, id |-> NullId, url |-> NULL,
                          user |-> Session[p], status |-> NULL,
                          prefix |-> prefix, method |-> method,
                          path |-> path]]
           /\ result' = [result EXCEPT ![p] = [kind |-> r.kind, reg |-> {}]]
    /\ UNCHANGED <<regs, audit, clock, pc, txn, obs, others>>

NextRoutes ==
    \E p \in Procs : \E method \in Methods, r \in Requests :
        route_request(p, r.prefix, method, r.path)

SpecRoutes == Init /\ [][NextRoutes]_vars

(* ------------------------- what a fault answers ------------------------ *)

\* GET /registrations and GET /registrations/my: the response built from
\* the outcome.
list_registrations_route(r) ==
    IF r.kind = "Page"
    THEN [status_code |-> 200, detail |-> NULL]
    ELSE [status_code |-> 500, detail |-> "Internal server error"]

\* get_current_user, lines 149-163: the HTTPException an exception inside
\* the dependency becomes.
get_current_user_raises(r) ==
    IF r.kind = "ValueError"
    THEN [status_code |-> 401,
          detail |-> <<"Invalid authentication credentials: ", ExcText(r, "")>>]
    ELSE [status_code |-> 500,
          detail |-> "Internal server error during authentication"]

\* The handlers a request can fail in.
Endpoints ==
    {"create_registration", "list_registrations", "get_my_registrations",
     "get_registration", "get_registration_by_url",
     "update_registration_status", "delete_registration",
     "query_audit_logs", "get_current_user"}

\* The response the endpoint's except clauses build from the outcome r.
error_response(endpoint, r) ==
    CASE endpoint = "create_registration" -> create_registration_route(r)
      [] endpoint \in {"list_registrations", "get_my_registrations"} ->
             list_registrations_route(r)
      [] endpoint = "get_registration" -> get_registration_route(r)
      [] endpoint = "get_registration_by_url" -> get_registration_by_url_route(r)
      [] endpoint = "update_registration_status" ->
             update_registration_status_route(r)
      [] endpoint = "delete_registration" -> delete_registration_route(r)
      [] endpoint = "query_audit_logs" -> query_audit_logs_route(r)
      [] endpoint = "get_current_user" -> get_current_user_raises(r)

\* The try block of the endpoint raises an exception that is none of those
\* the handler expects, with the given message, at its first statement:
\* nothing was committed.  (get_current_user_sync_raises is the fault at
\* the second statement of get_current_user.)
internal_fault(p, endpoint, message) ==
    /\ pc[p] = "done"
    /\ result' = [result EXCEPT ![p] =
                     [kind |-> "Exception", reg |-> {}, message |-> message,
                      endpoint |-> endpoint]]
    /\ UNCHANGED <<regs, audit, clock, pc, req, txn, obs, others>>

\* The tokens the requests that fault arrive with: a new address, and the
\* admin group dropped.
FaultClaims == {c \in Claims : c.email = "b@x.example"}

NextFaults ==
    \E p \in Procs :
        \/ \E endpoint \in Endpoints, message \in Messages :
               internal_fault(p, endpoint, message)
        \/ \E claims \in FaultClaims : get_current_user(p, claims)
        \/ get_current_user_sync(p)
        \/ \E message \in Messages : get_current_user_sync_raises(p, message)
        \/ get_my_profile(p)

SpecFaults == Init /\ [][NextFaults]_vars

(* ------------------------- status and approver ------------------------- *)

\* The rows the open transactions have written with INSERT or UPDATE.
WrittenRows == UNION {txn[p].ins \cup txn[p].upd : p \in Procs}

\* C2: in every state, a registration row, committed or written by an
\* INSERT or UPDATE of an open transaction, is Pending exactly when its
\* approver_id is null and exactly when its approved_at is null.
C2_PendingIffNoApprover ==
    \A row \in {regs[id] : id \in DOMAIN regs} \cup WrittenRows :
        /\ (row.status = PENDING) <=> (row.approver_id = NULL)
        /\ (row.status = PENDING) <=> (row.approved_at = NullTime)

\* An UPDATE has written a decided row with its approver and decision time
\* next to a committed decided row.
C2_Witness ==
    /\ \E p \in Procs : \E row \in txn[p].upd :
          /\ row.status \in {APPROVED, REJECTED}
          /\ row.approver_id = Session[p]
          /\ row.approved_at # NullTime
    /\ \E id \in DOMAIN regs :
          /\ regs[id].status = APPROVED
          /\ regs[id].approver_id \in Users
          /\ regs[id].approved_at # NullTime

\* C3: a committed status only changes from Pending to Approved or
\* Rejected, and an Approved or Rejected row keeps its status, approver_id
\* and approved_at in every step; the row an UPDATE writes replaces a
\* Pending row and is Approved or Rejected.
C3_DecisionIsFinal ==
    /\ [][\A id \in DOMAIN regs :
            /\ regs[id].status # PENDING
                  => \/ id \notin DOMAIN regs'
                     \/ /\ regs'[id].status = regs[id].status
                        /\ regs'[id].approver_id = regs[id].approver_id
                        /\ regs'[id].approved_at = regs[id].approved_at
            /\ (id \in DOMAIN regs' /\ regs'[id].status # regs[id].status)
                  => /\ regs[id].status = PENDING
                     /\ regs'[id].status \in {APPROVED, REJECTED}]_vars
    /\ [](\A p \in Procs : \A row \in txn[p].upd :
            /\ row.registration_id \in DOMAIN regs
            /\ regs[row.registration_id].status = PENDING
            /\ row.status \in {APPROVED, REJECTED})

\* One decision has updated a Pending row while another one, on a decided
\* row, got no row back.
C3_Witness ==
    \E p \in Procs, q \in Procs :
        /\ txn[p].upd # {}
        /\ pc[q] = "u_none" /\ obs[q] = "not_pending"
        /\ regs[req[q].id].status = APPROVED

(* ---------------------- mutation and audit entry ----------------------- *)

\* The audit rows a step commits.
NewEntries == SubSeq(audit', Len(audit) + 1, Len(audit'))

\* The step commits an audit row of registration id with one of the actions.
Appends(id, actions) ==
    \E i \in 1..Len(NewEntries) :
        /\ NewEntries[i].registration_id = id
        /\ NewEntries[i].action \in actions

\* The outcomes that are exceptions.
Raised == {"Exception", "UniqueViolationError", "ValueError", "DataError"}

\* C4: every mutation is committed together with its audit entry or not at
\* all: in every step a row appears exactly when its Created entry does, a
\* row changes exactly when its Approved/Rejected entry appears, and a row
\* is removed exactly when a Deleted entry for it appears; a step that ends
\* a call with an exception commits nothing.
C4_MutationWithItsEntry ==
    [][/\ \A id \in RegIds :
            /\ (id \notin DOMAIN regs /\ id \in DOMAIN regs') <=> Appends(id, {CREATED})
            /\ (id \in DOMAIN regs /\ id \in DOMAIN regs' /\ regs'[id] # regs[id])
                  <=> Appends(id, {APPROVED, REJECTED})
            /\ (id \in DOMAIN regs /\ id \notin DOMAIN regs') <=> Appends(id, {DELETED})
       /\ \A p \in Procs :
            (pc[p] # "done" /\ pc'[p] = "done" /\ result'[p].kind \in Raised)
            => regs' = regs /\ audit' = audit]_vars

\* The audit write of a create and that of a decision have failed after
\* the row was written; no row and no entry of theirs is committed.
C4_Witness ==
    \E p \in Procs, q \in Procs, S \in SUBSET SeedIds :
        /\ pc[p] = "done" /\ obs[p] = "free" /\ result[p].kind = "DataError"
        /\ pc[q] = "done" /\ obs[q] = "pending" /\ result[q].kind = "DataError"
        /\ regs = [id \in S |-> SeedRow(id, S)]
        /\ audit = SeedAudit(S)

(* --------------------------- append-only ledger ------------------------ *)

\* The elements of a sequence.
Range(seq) == {seq[i] : i \in 1..Len(seq)}

\* C5: no step removes or changes a committed audit entry, and every entry,
\* those of a deleted registration included, is returned by
\* query_logs(registration_id = id).
C5_LedgerAppendOnly ==
    /\ [][/\ Len(audit') >= Len(audit)
           /\ \A i \in 1..Len(audit) : audit'[i] = audit[i]]_vars
    /\ [](\A i \in 1..Len(audit) :
            audit[i] \in Range(query_logs(audit, audit[i].registration_id, NULL,
                                          NULL, NullTime, NullTime, MaxLimit, 0).results))

\* The ledger holds the entries of a deleted registration, the query by its
\* id returns them, the later first, and a create has run since.
C5_Witness ==
    \E id \in RegIds, p \in Procs :
        LET page == query_logs(audit, id, NULL, NULL, NullTime, NullTime, MaxLimit, 0)
        IN  /\ id \notin DOMAIN regs
            /\ page.total >= 2
            /\ page.results[1].action = DELETED
            /\ page.results[page.total].action = CREATED
            /\ pc[p] = "done" /\ result[p].kind = "DataError"

(* ------------------- decisions that meet no Pending row ---------------- *)

\* The step is taken by worker p: no other worker's call moves or ends.
StepOf(p) ==
    \A q \in Procs \ {p} :
        pc'[q] = pc[q] /\ result'[q] = result[q] /\ obs'[q] = obs[q]

\* C6: a decision that met a row that is not Pending ends in a way that can
\* be told from a decision that met no row: what the service returns, or
\* the response the router builds from it, differs.
C6_NotPendingDistinctFromMissing ==
    \A p \in Procs, q \in Procs :
        (/\ pc[p] = "done" /\ obs[p] = "missing"
         /\ pc[q] = "done" /\ obs[q] = "not_pending")
        => \/ result[p] # result[q]
           \/ update_registration_status_route(result[p])
                 # update_registration_status_route(result[q])

\* C7: a decision whose UPDATE meets no committed row for its id, or a row
\* that is not Pending, writes nothing and goes on to return None; unless
\* the COMMIT fails it ends by returning None, and neither step commits an
\* audit entry or changes a registration row.
C7_NoRowNoEffect ==
    [][\A p \in Procs :
         /\ (/\ pc[p] \in {"done", "u_update"}
             /\ StepOf(p)
             /\ obs'[p] \in {"missing", "not_pending"})
            => /\ pc'[p] = "u_none"
               /\ txn'[p] = EmptyTxn
               /\ audit' = audit
               /\ regs' = regs
         /\ (pc[p] = "u_none" /\ pc'[p] = "done" /\ result'[p].kind # "Exception")
            => /\ result'[p].kind = "None"
               /\ audit' = audit
               /\ regs' = regs]_vars

\* A decision has met an Approved row and returned None; the row still
\* carries its one decision.
C7_Witness ==
    \E p \in Procs, id \in DOMAIN regs :
        /\ pc[p] = "done" /\ obs[p] = "not_pending" /\ result[p].kind = "None"
        /\ regs[id].status = APPROVED
        /\ regs[id].approver_id \in Users
        /\ Len(Decisions(audit, id)) = 1
        /\ \A j \in DOMAIN regs : regs[j].status # PENDING

(* ------------------------- endpoint_url is unique ---------------------- *)

\* C8: no two committed rows hold the same endpoint_url; a create whose
\* INSERT meets a committed row holding its URL ends in that step with
\* UniqueViolationError, answered 409, commits no row and no audit entry
\* and leaves the existing rows unchanged.
C8_EndpointUrlUnique ==
    /\ [](\A i \in DOMAIN regs, j \in DOMAIN regs :
            regs[i].endpoint_url = regs[j].endpoint_url => i = j)
    /\ [][\A p \in Procs :
            (/\ pc[p] = "done"
             /\ StepOf(p)
             /\ obs'[p] = "held")
            => /\ pc'[p] = "done"
               /\ result'[p].kind = "UniqueViolationError"
               /\ create_registration_route(result'[p]).status_code = 409
               /\ txn'[p] = EmptyTxn
               /\ regs' = regs
               /\ audit' = audit]_vars

\* A create was refused for its URL while the row holding it is in place.
C8_Witness ==
    \E p \in Procs :
        /\ pc[p] = "done"
        /\ result[p].kind = "UniqueViolationError"
        /\ create_registration_route(result[p]).status_code = 409
        /\ Cardinality(DOMAIN regs) = 1
        /\ Len(audit) = 1

(* --------------------- the ledger of a registration -------------------- *)

\* The Created entry of a row.
IsCreatedEntry(e, row) ==
    /\ e.action = CREATED
    /\ e.previous_status = NULL
    /\ e.new_status = PENDING
    /\ e.user_id = row.submitter_id

\* C9: a create whose INSERT has stored its row and a decision whose UPDATE
\* has changed its row end, unless the store fails, by returning the
\* registration.  After the create the committed row is Pending with
\* approver_id null and the ledger of its id is exactly Created(previous
\* null, new Pending, user = submitter); after the decision as s the row has
\* status s, approver_id the decider and approved_at set, and the ledger of
\* its id is that Created entry and s(previous Pending, new s, user =
\* approver).
C9_LedgerOfCreateThenDecide ==
    [][\A p \in Procs :
         (pc[p] \in {"c_log", "u_log"} /\ pc'[p] = "done"
            /\ result'[p].kind # "Exception")
         => /\ result'[p].kind = "Registration"
            /\ \E row \in txn[p].row :
                 LET es == EntriesOf(audit', row.registration_id)
                 IN  /\ row.registration_id \in DOMAIN regs'
                     /\ regs'[row.registration_id] = row
                     /\ IsCreatedEntry(es[1], row)
                     /\ req[p].op = "create"
                           => /\ row.status = PENDING
                              /\ row.approver_id = NULL
                              /\ row.submitter_id = req[p].user
                              /\ Len(es) = 1
                     /\ req[p].op = "decide"
                           => /\ row.status = req[p].status
                              /\ row.approver_id = req[p].user
                              /\ row.approved_at # NullTime
                              /\ Len(es) = 2
                              /\ es[2].action = row.status
                              /\ es[2].previous_status = PENDING
                              /\ es[2].new_status = row.status
                              /\ es[2].user_id = row.approver_id]_vars

(* ------------------------------- deletion ------------------------------ *)

\* C10: a delete that has found the row of its id ends, unless the store
\* fails, by returning True: the row is removed, after which
\* get_registration_by_id finds nothing, and exactly one audit entry is
\* committed: Deleted, for that id, by the deleter, with new_status null and
\* previous_status the status the row had immediately before the deletion.
C10_DeletedEntryHasLastStatus ==
    [][\A p \in Procs :
         (pc[p] = "d_log" /\ pc'[p] = "done" /\ result'[p].kind # "Exception")
         => /\ result'[p].kind = "True"
            /\ req[p].id \in DOMAIN regs
            /\ get_registration_by_id(regs', req[p].id) = {}
            /\ Len(NewEntries) = 1
            /\ NewEntries[1].registration_id = req[p].id
            /\ NewEntries[1].action = DELETED
            /\ NewEntries[1].user_id = req[p].user
            /\ NewEntries[1].new_status = NULL
            /\ NewEntries[1].previous_status = regs[req[p].id].status]_vars

(* ----------------------- deleting what is not there -------------------- *)

\* C11: a delete whose SELECT finds no row for its id ends in that step by
\* returning False, answered 404; the step opens no transaction work,
\* commits no audit entry and leaves every row as it was.  A delete goes on
\* to write its audit entry only for an id that has a committed row.
C11_DeleteOfMissingId ==
    [][\A p \in Procs :
         /\ (/\ pc[p] = "done" /\ pc'[p] = "done"
             /\ StepOf(p)
             /\ result'[p].kind = "False")
            => /\ RegIds \ DOMAIN regs # {}
               /\ delete_registration_route(result'[p]).status_code = 404
               /\ txn'[p] = EmptyTxn
               /\ audit' = audit
               /\ regs' = regs
               /\ clock' = clock
         /\ (pc[p] = "done" /\ pc'[p] = "d_log")
            => /\ req'[p].id \in DOMAIN regs
               /\ txn'[p].row = {regs[req'[p].id]}]_vars

\* A delete of an id that has no row has returned False while the seeded
\* rows and their entries are in place and no transaction is open.
C11_Witness ==
    \E p \in Procs :
        /\ pc[p] = "done"
        /\ result[p].kind = "False"
        /\ delete_registration_route(result[p]).status_code = 404
        /\ Cardinality(DOMAIN regs) = 2
        /\ Len(audit) = 3
        /\ \A q \in Procs : txn[q] = EmptyTxn

(* --------------------- a decision cannot be Pending -------------------- *)

\* C12: a decision with new_status = Pending ends in its first step with
\* ValueError, answered 400, whatever the rows are: no transaction is
\* opened, no row changes and no audit entry is written; the request
\* schema refuses the value with ValueError too, and no decision that
\* reaches the store asks for Pending.
C12_PendingDecisionRefused ==
    /\ [](validate_status_transition(PENDING) = "ValueError")
    /\ [][\A p \in Procs :
            /\ (pc[p] = "done" /\ StepOf(p) /\ result'[p].kind = "ValueError")
               => /\ pc'[p] = "done"
                  /\ update_registration_status_route(result'[p]).status_code = 400
                  /\ txn'[p] = EmptyTxn
                  /\ regs' = regs
                  /\ audit' = audit
                  /\ clock' = clock
            /\ (pc[p] = "done" /\ req'[p].op = "decide")
               => req'[p].status \in {APPROVED, REJECTED}]_vars

\* A decision was refused with ValueError while a Pending row and a decided
\* row are in place.
C12_Witness ==
    \E p \in Procs, i \in DOMAIN regs, j \in DOMAIN regs :
        /\ pc[p] = "done"
        /\ result[p].kind = "ValueError"
        /\ regs[i].status = PENDING
        /\ regs[j].status \in {APPROVED, REJECTED}

(* ------------------------- admin-only operations ----------------------- *)

\* pc values inside a decision, a deletion or the audit-log query.
InAdminOp == {"u_log", "u_none", "d_log", "q_fetch"}

\* C13: a decision, a deletion or the audit-log query runs only for a
\* request whose resolved user has is_admin = true, and acts as that user;
\* for a resolved user with is_admin = false the request ends with 403 in
\* the step of the check and nothing is read for it or changed: no row, no
\* audit entry, no query.  Every decided row a decision writes, and every
\* Approved, Rejected or Deleted entry a step commits, names the user of a
\* request that passed the check.
C13_AdminOnly ==
    /\ [](\A p \in Procs :
            pc[p] \in InAdminOp
            => \E user \in auth[p].user :
                  /\ user.is_admin
                  /\ pc[p] # "q_fetch" => req[p].user = user.user_id)
    /\ [][\A p \in Procs :
            /\ (/\ pc[p] = "resolved" /\ pc'[p] # "resolved"
                /\ \E user \in auth[p].user : ~user.is_admin)
               => /\ pc'[p] = "done"
                  /\ result'[p].kind = "HTTP403"
                  /\ txn'[p] = EmptyTxn
                  /\ query'[p] = NoPage
                  /\ regs' = regs /\ audit' = audit /\ clock' = clock
            /\ (/\ pc[p] = "resolved" /\ pc'[p] # "resolved"
                /\ \E user \in auth[p].user : user.is_admin)
               => result'[p].kind # "HTTP403"]_vars
    /\ [](\A p \in Procs : \A r \in txn[p].upd :
            \E user \in auth[p].user :
                user.is_admin /\ r.approver_id = user.user_id)
    /\ [][\A i \in 1..Len(NewEntries) :
            NewEntries[i].action \in {APPROVED, REJECTED, DELETED}
            => \E p \in Procs : \E user \in auth[p].user :
                  /\ pc[p] \in InAdminOp /\ pc'[p] = "done"
                  /\ user.is_admin
                  /\ NewEntries[i].user_id = user.user_id]_vars

\* One request was refused with 403 and left nothing, while the decision
\* of an admin's request has written its row.
C13_Witness ==
    \E p \in Procs, q \in Procs :
        /\ pc[p] = "done"
        /\ result[p].kind = "HTTP403"
        /\ query[p] = NoPage
        /\ txn[p] = EmptyTxn
        /\ pc[q] = "u_log"
        /\ \E r \in txn[q].upd : \E id \in DOMAIN users :
              users[id].is_admin /\ r.approver_id = id
        /\ \E id \in DOMAIN users : ~users[id].is_admin
(* ---------------------- where is_admin comes from ---------------------- *)

\* C14: the is_admin the admin check of a request uses is the one stored in
\* users when the request read its row, whatever groups the token carries:
\* a flag set or cleared in the database decides the next request.
C14_AdminFromStoredFlag ==
    \A p \in Procs :
        pc[p] = "resolved"
        => \A user \in auth[p].user, stored \in auth[p].stored :
              user.is_admin = stored
(* --------------------------- the upsert -------------------------------- *)

\* The step is the upsert of worker p's request.
UpsertBy(p) == pc[p] = "done" /\ pc'[p] \in {"sync", "resolved"}

\* C15: the upsert of get_or_create_user leaves is_admin of every existing
\* user as it was, whatever the claims, gives a user it creates is_admin =
\* false, and returns the row with the is_admin that is stored.
C15_UpsertKeepsAdminFlag ==
    [][\A p \in Procs :
         UpsertBy(p)
         => /\ DOMAIN users \subseteq DOMAIN users'
            /\ \A id \in DOMAIN users : users'[id].is_admin = users[id].is_admin
            /\ \A id \in DOMAIN users' \ DOMAIN users : users'[id].is_admin = FALSE
            /\ \A user \in auth'[p].user :
                  /\ user = users'[user.user_id]
                  /\ auth'[p].stored = {users'[user.user_id].is_admin}]_vars

\* A user whose flag was set in the database has signed in again with a
\* token without the admin group: the upsert has stored the token's email
\* and returned the flag as it was.
C15_Witness ==
    \E p \in Procs :
        /\ pc[p] = "sync"
        /\ auth[p].stored = {TRUE}
        /\ \E user \in auth[p].user, claims \in auth[p].claims :
              /\ ~token_is_admin(claims)
              /\ users[user.user_id].is_admin
              /\ users[user.user_id].email = "b@x.example"
              /\ claims.email = "b@x.example"
\* C16: users holds one row per subject; an upsert for a subject that has a
\* row returns that row's user_id and adds no row, an upsert for a new
\* subject adds exactly its row; the row returned and stored carries the
\* email and display name of the upsert's claims, and no other step changes
\* a row's subject, email or display name, so a row always shows the claims
\* of the last upsert for its subject.
C16_UpsertIdempotent ==
    /\ [](\A i \in DOMAIN users, j \in DOMAIN users :
            users[i].entra_id = users[j].entra_id => i = j)
    /\ [][\A p \in Procs :
            UpsertBy(p)
            => \E claims \in auth'[p].claims, user \in auth'[p].user :
                  LET before == UserBySubject(users, claims.sub)
                  IN  /\ user.entra_id = claims.sub
                      /\ user.email = extract_user_claims(claims).email
                      /\ user.display_name = claims.name
                      /\ users'[user.user_id] = user
                      /\ before # {} => before = {user.user_id}
                      /\ before = {} => user.user_id \notin DOMAIN users
                      /\ DOMAIN users' = DOMAIN users \cup {user.user_id}
                      /\ \A id \in DOMAIN users \ {user.user_id} :
                            users'[id] = users[id]]_vars
    /\ [][(\A p \in Procs : ~UpsertBy(p))
          => /\ DOMAIN users' = DOMAIN users
             /\ \A id \in DOMAIN users :
                   users'[id] = [users[id] EXCEPT !.is_admin = users'[id].is_admin]]_vars

\* Two requests of one subject, signing in for the first time with
\* different claims, have both been upserted: they hold the same user_id,
\* there is one row, and it shows the claims of one of them.
C16_Witness ==
    \E p \in Procs, q \in Procs :
        /\ p # q
        /\ pc[p] \in {"sync", "resolved"} /\ pc[q] \in {"sync", "resolved"}
        /\ \E cp \in auth[p].claims, cq \in auth[q].claims,
              up \in auth[p].user, uq \in auth[q].user :
              /\ cp.sub = cq.sub /\ cp.email # cq.email
              /\ up.user_id = uq.user_id
              /\ up.email # uq.email
              /\ DOMAIN users = {up.user_id}
              /\ users[up.user_id].email = cq.email
              /\ users[up.user_id].display_name = cq.name
(* ------------------------ the pool's lifecycle ------------------------- *)

\* While _pool is None (before create_pool has returned, after
\* close_db_pool has finished) a call of get_db_connection ends with
\* RuntimeError, and no connection is held.
C17_UnsetPoolRaises ==
    /\ \A p \in Procs :
          obs[p] \in {"starting", "closed"} => result[p].kind = "RuntimeError"
    /\ pool.pool = NULL => \A p \in Procs : pc[p] # "conn"

\* C17: a call of get_db_connection made before init_db_pool has completed
\* or after close_db_pool has begun ends with RuntimeError, and no
\* connection is held, so no query runs, in those periods.
C17_NoConnectionOutsideReady ==
    /\ \A p \in Procs :
          obs[p] \in Phases \ {"ready"} => result[p].kind = "RuntimeError"
    /\ pool.phase # "ready" => \A p \in Procs : pc[p] # "conn"
(* ------------------------- the range of a query ------------------------ *)

\* The range the caller asked for has both bounds and ends before it starts.
EndsBeforeStart(a) ==
    a.from_date # NullTime /\ a.to_date # NullTime /\ a.to_date < a.from_date

\* C18: query_logs called with both bounds and to_date < from_date raises
\* ValueError, which the router answers with 400, and the call ends before
\* its COUNT or its page statement runs; with to_date >= from_date, or a
\* bound absent, the call goes on to its COUNT.
C18_InvalidRange ==
    [][\A p \in Procs : \A a \in query'[p].args :
         (pc[p] = "done" /\ query'[p] # query[p]) =>
           IF EndsBeforeStart(a)
           THEN /\ result'[p].kind = "ValueError"
                /\ query_audit_logs_route(result'[p]).status_code = 400
                /\ pc'[p] = "done"
                /\ query'[p].kind = "ValueError"
                /\ query'[p].total = 0
                /\ query'[p].results = <<>>
           ELSE /\ query'[p].kind = "counted"
                /\ pc'[p] = "q_fetch"
                /\ result'[p].kind = "pending"]_vars


(* --------------------------- the size of a page ------------------------ *)

\* C19: whatever limit the caller passes, the page query_logs returns has
\* at most min(limit, 200) entries, and the total it returns is the one the
\* COUNT gave, which is the same for every limit and offset.
C19_PageSizeAndTotal ==
    [][\A p \in Procs :
         /\ (pc[p] = "q_fetch" /\ pc'[p] = "done") =>
               \A a \in query'[p].args :
                   /\ query'[p].kind = "ok"
                   /\ Len(query'[p].results) <= Min(a.limit, 200)
                   /\ Len(query'[p].results) <= 200
                   /\ query'[p].total = query[p].total
         /\ (pc[p] = "done" /\ pc'[p] = "q_fetch") =>
               \A a \in query'[p].args :
                   \A lim \in {1, a.limit + 1}, off \in {0, a.offset + 1} :
                       query'[p].total =
                           query_logs(audit, a.registration_id, a.user_id,
                                      a.action, a.from_date, a.to_date,
                                      lim, off).total]_vars

\* A call asking for more than 200 entries of a ledger that has more than
\* 200 matching ones got a page of 200 and the total of all of them.
C19_Witness ==
    /\ query[Reader].kind = "ok"
    /\ \E a \in query[Reader].args : a.limit > 200 /\ a.offset = 0
    /\ Len(query[Reader].results) = 200
    /\ query[Reader].total > 200

(* ------------------------ what a query returns ------------------------- *)

\* The audit row satisfies every filter the call supplied; both bounds of
\* the range are inclusive.
Satisfies(e, a) ==
    /\ a.registration_id = NullId \/ e.registration_id = a.registration_id
    /\ a.user_id = NULL \/ e.user_id = a.user_id
    /\ a.action = NULL \/ e.action = a.action
    /\ a.from_date = NullTime \/ a.from_date <= e.timestamp
    /\ a.to_date = NullTime \/ e.timestamp <= a.to_date

\* The positions of the ledger whose rows satisfy the filters.
Satisfying(log, a) == {i \in 1..Len(log) : Satisfies(log[i], a)}

\* C20: the total query_logs returns is the number of ledger entries that
\* satisfy every supplied filter when its COUNT runs, and the page it
\* returns is, of the entries that satisfy them when its page statement
\* runs and taken newest first, the ones after the first `offset`, up to
\* min(limit, 200) of them: the k-th returned entry has exactly
\* offset + k - 1 satisfying entries newer than it.
C20_ExactPage ==
    [][\A p \in Procs :
         /\ (pc[p] = "done" /\ pc'[p] = "q_fetch") =>
               \A a \in query'[p].args :
                   query'[p].total = Cardinality(Satisfying(audit, a))
         /\ (pc[p] = "q_fetch" /\ pc'[p] = "done") =>
               \A a \in query'[p].args :
                   LET M == Satisfying(audit, a)
                       rest == Cardinality(M) - a.offset
                       page == query'[p].results
                   IN  /\ Len(page) = IF rest <= 0 THEN 0
                                      ELSE Min(rest, Min(a.limit, 200))
                       /\ \A k \in 1..Len(page) :
                            /\ \E i \in M : audit[i] = page[k]
                            /\ Cardinality({i \in M : audit[i].timestamp
                                                      > page[k].timestamp})
                                 = a.offset + k - 1]_vars

\* A call filtered by user and by a range of two instants, with offset 1,
\* returned the older of the two rows on the bounds and counted both.
C20_Witness ==
    /\ query[Reader].kind = "ok"
    /\ \E a \in query[Reader].args :
         /\ a.user_id = "u2" /\ a.from_date = 2 /\ a.to_date = 3
         /\ a.registration_id = NullId /\ a.action = NULL
         /\ a.limit = 1 /\ a.offset = 1
    /\ query[Reader].total = 2
    /\ Len(query[Reader].results) = 1
    /\ query[Reader].results[1].timestamp = 2

(* --------------------------- searching the list ------------------------ *)

\* s occurs in text as a literal substring, compared without regard to case.
OccursIn(s, text) ==
    \E i \in 0..(Len(text) - Len(s)) :
        \A j \in 1..Len(s) : lower(text[i + j]) = lower(s[j])

\* The row is one the List call with arguments a should return.
Listed(row, a) ==
    /\ a.status = NULL \/ row.status = a.status
    /\ a.submitter_id = NULL \/ row.submitter_id = a.submitter_id
    /\ \/ a.search = NoSearch
       \/ OccursIn(a.search, row.endpoint_name)
       \/ OccursIn(a.search, row.owner_contact)

\* C21: List with a search term returns exactly the registrations in whose
\* name or owner contact the term occurs as a case-insensitive literal
\* substring, and that pass the status and submitter filters given: the
\* total is their number and every returned row is one of them, for every
\* search term, those with % and _ included.
C21_SearchIsLiteralSubstring ==
    [][\A p \in Procs :
         /\ (pc[p] = "done" /\ pc'[p] = "l_fetch") =>
               \A a \in query'[p].args :
                   query'[p].total =
                       Cardinality({id \in DOMAIN regs : Listed(regs[id], a)})
         /\ (pc[p] = "l_fetch" /\ pc'[p] = "done") =>
               \A a \in query'[p].args :
                   \A k \in 1..Len(query'[p].results) :
                       Listed(query'[p].results[k], a)]_vars

(* ---------------------------- a page of the list ----------------------- *)

\* The rows of the table that pass the WHERE clause of the call.
ListMatches(table, a) ==
    {id \in DOMAIN table :
        list_where(table[id], a.status, a.submitter_id, a.search)}

\* C22: a List query reaches the store only with limit <= 1000 and
\* offset >= 0; its total is the number of matching registrations, whatever
\* limit and offset are; its page holds the matching registrations at
\* positions offset .. offset+limit-1 of the matching set taken newest
\* first: at most limit rows, the k-th of which has exactly offset + k - 1
\* matching rows created after it.
C22_ListPage ==
    [][\A p \in Procs :
         /\ (pc[p] = "done" /\ pc'[p] = "l_fetch") =>
               \A a \in query'[p].args :
                   /\ a.limit <= 1000
                   /\ a.offset >= 0
                   /\ query'[p].total = Cardinality(ListMatches(regs, a))
         /\ (pc[p] = "l_fetch" /\ pc'[p] = "done") =>
               \A a \in query'[p].args :
                   LET M == ListMatches(regs, a)
                       rest == Cardinality(M) - a.offset
                       page == query'[p].results
                   IN  /\ query'[p].total = query[p].total
                       /\ Len(page) = IF rest <= 0 THEN 0
                                      ELSE Min(rest, a.limit)
                       /\ \A k \in 1..Len(page) :
                            /\ \E id \in M : regs[id] = page[k]
                            /\ Cardinality({id \in M : regs[id].created_at
                                                     > page[k].created_at})
                                 = a.offset + k - 1]_vars

\* A List of three registrations with limit 1 and offset 1 returned the
\* second newest and the total 3.
C22_Witness ==
    /\ query[Reader].kind = "listed"
    /\ \E a \in query[Reader].args :
         /\ a.limit = 1 /\ a.offset = 1
         /\ a.status = NULL /\ a.submitter_id = NULL /\ a.search = NoSearch
    /\ query[Reader].total = 3
    /\ Len(query[Reader].results) = 1
    /\ query[Reader].results[1].registration_id = 2

(* ------------------------- reads change nothing ------------------------ *)

\* The step is one of a read operation of worker p: a lookup by id or by
\* URL, or one of the two statements of a List or of an audit query.
ReadStep(p) ==
    \/ /\ pc[p] = "done" /\ pc'[p] = "done"
       /\ req'[p].op \in {"get_by_id", "get_by_url"}
       /\ query'[p] = query[p]
       /\ <<req'[p], result'[p]>> # <<req[p], result[p]>>
    \/ pc[p] = "done" /\ pc'[p] \in {"l_fetch", "q_fetch"}
    \/ pc[p] \in {"l_fetch", "q_fetch"} /\ pc'[p] = "done"

\* C23: a step of get_registration_by_id, get_registration_by_url,
\* get_registrations or query_logs leaves the registrations table and the
\* audit ledger as they were, whether the lookup finds a row or not and
\* whatever mutations are in flight.
C23_ReadsChangeNothing ==
    [][\A p \in Procs : ReadStep(p) => regs' = regs /\ audit' = audit]_vars

\* A lookup by id has missed while the other worker's deletion of another
\* row was in flight.
C23_Witness ==
    /\ req[Reader].op = "get_by_id"
    /\ result[Reader].kind = "None"
    /\ \E q \in Procs \ {Reader} : pc[q] = "d_log"
    /\ regs # <<>>

(* ----------------------------- lookup by URL --------------------------- *)

\* C24: get_registration_by_url(u) returns the registration whose stored
\* endpoint_url is equal to u as given, and None (404 at the route) when no
\* stored URL equals u; it never returns a row with another URL.
C24_ByUrlIsExact ==
    [][\A p \in Procs :
         (/\ req'[p].op = "get_by_url"
          /\ query'[p] = query[p]
          /\ <<req'[p], result'[p]>> # <<req[p], result[p]>>) =>
            LET u == req'[p].url
                r == result'[p]
            IN  IF \E id \in DOMAIN regs : regs[id].endpoint_url = u
                THEN /\ r.kind = "Registration"
                     /\ Cardinality(r.reg) = 1
                     /\ \A row \in r.reg :
                          /\ row.endpoint_url = u
                          /\ row.registration_id \in DOMAIN regs
                          /\ regs[row.registration_id] = row
                     /\ get_registration_by_url_route(r).status_code = 200
                ELSE /\ r.kind = "None"
                     /\ r.reg = {}
                     /\ get_registration_by_url_route(r).status_code = 404]_vars

\* The text a URL was submitted as is looked up while the table holds its
\* normalised form: nothing is found.
C24_Witness ==
    /\ req[Reader].op = "get_by_url"
    /\ req[Reader].url = "https://a.example"
    /\ StrHttpUrl(req[Reader].url) # req[Reader].url
    /\ \E id \in DOMAIN regs : regs[id].endpoint_url = StrHttpUrl(req[Reader].url)
    /\ result[Reader].kind = "None"

(* --------------------------- which route answers ----------------------- *)

\* The worker's request is the GET of the path with this one segment
\* below /registrations.
GetOf(p, segment) ==
    /\ "method" \in DOMAIN req[p]
    /\ req[p].prefix = "/registrations"
    /\ req[p].method = "GET"
    /\ req[p].path = <<segment>>

\* C25: an authenticated GET /registrations/by-url is handled by
\* get_registration_by_url, as GET /registrations/my is handled by
\* get_my_registrations, and not by get_registration.
C25_ByUrlRouteIsReached ==
    \A p \in Procs :
        /\ GetOf(p, "my") => req[p].op = "get_my_registrations"
        /\ GetOf(p, "by-url") => req[p].op = "get_registration_by_url"

(* ------------------------- the audit query is served ------------------- *)

\* C26: the application serves the audit-log query: a GET /audit-logs
\* request is dispatched to query_audit_logs.
C26_AuditLogsIsServed ==
    \A p \in Procs :
        (/\ "method" \in DOMAIN req[p]
         /\ req[p].prefix = "/audit-logs"
         /\ req[p].method = "GET"
         /\ req[p].path = <<>>) =>
            /\ req[p].op = "query_audit_logs"
            /\ result[p].kind # "HTTP404"

(* ------------------------ faults answer opaquely ----------------------- *)

\* The worker's request ended in an internal fault.
Faulted(p) == result[p].kind = "Exception" /\ "endpoint" \in DOMAIN result[p]

\* C27: the response to a request that ended in an internal fault does not
\* depend on the exception: two faults of the same endpoint get identical
\* responses, whatever their messages, at every endpoint.
C27_FaultsAnswerAlike ==
    \A p, q \in Procs :
        (Faulted(p) /\ Faulted(q) /\ result[p].endpoint = result[q].endpoint) =>
            error_response(result[p].endpoint, result[p])
                = error_response(result[q].endpoint, result[q])

(* -------------------------- the status of POST /users ------------------ *)

\* C28: POST /users answers 201 when the request's upsert created the user
\* record and 200 when the record existed and was updated.
C28_CreatedOrOk ==
    [][\A p \in Procs :
         (pc[p] = "resolved" /\ result'[p].kind = "UserResponse") =>
            \A created \in auth[p].created :
                result'[p].status_code = IF created THEN 201 ELSE 200]_vars

(* ------------------------ two deletions of one row --------------------- *)

\* The Deleted entries the ledger holds for a registration.
DeletedEntries(id) ==
    {i \in 1..Len(audit) :
        audit[i].registration_id = id /\ audit[i].action = DELETED}

\* C29: however two delete_registration calls on one registration
\* interleave, at most one Deleted entry is committed for the id; each of
\* the two calls that has read the row returns, unless the store fails,
\* True or False, and a call that returns False commits no audit entry.
C29_OneDeletionOneEntry ==
    /\ [](\A id \in RegIds : Cardinality(DeletedEntries(id)) <= 1)
    /\ [][\A p \in Procs, q \in Procs :
            (/\ p # q
             /\ pc[p] = "d_log" /\ pc[q] = "d_log" /\ req[p].id = req[q].id
             /\ pc'[p] = "done" /\ result'[p].kind # "Exception")
            => /\ result'[p].kind \in {"True", "False"}
               /\ result'[p].kind = "False" => audit' = audit]_vars

(* ------------------- the admin flag follows the token ------------------ *)

\* C34: when get_current_user returns a User, the User's is_admin and the
\* is_admin stored in the user's row both say whether the configured admin
\* group id is among the token's groups, whatever the row held before (a
\* flag set directly in the table is overwritten).
C34_AdminFlagFollowsToken ==
    [][\A p \in Procs :
         (pc[p] \in {"done", "sync"} /\ pc'[p] = "resolved") =>
            \A claims \in auth'[p].claims, user \in auth'[p].user :
                /\ user.is_admin = (entra_admin_group_id \in claims.groups)
                /\ user.user_id \in DOMAIN users'
                /\ users'[user.user_id].is_admin
                      = (entra_admin_group_id \in claims.groups)]_vars

\* A user whose row had is_admin true (set by make_admin) and whose token
\* lacks the admin group has been authenticated: the flag is false in the
\* returned User and in the row.
C34_Witness ==
    \E p \in Procs :
        /\ pc[p] = "resolved"
        /\ auth[p].stored = {TRUE}
        /\ \E claims \in auth[p].claims, user \in auth[p].user :
              /\ entra_admin_group_id \notin claims.groups
              /\ ~user.is_admin
              /\ ~users[user.user_id].is_admin

(* ------------------- auth.entra_validator.validate_token --------------- *)

\* settings.azure_client_id and settings.azure_tenant_id
azure_client_id == "client-1"
azure_tenant_id == "tenant-1"

\* Texts here are the sequences of the parts an f-string joins.
\* valid_audiences: the client id and f"api://{client id}".
valid_audiences == {<<azure_client_id>>, <<"api://", azure_client_id>>}

\* valid_issuers: the tenant's v2.0 and v1.0 issuers.
valid_issuers ==
    {<<"https://login.microsoftonline.com/", azure_tenant_id, "/v2.0">>,
     <<"https://sts.windows.net/", azure_tenant_id, "/">>}

\* The 'aud' and 'iss' claims the tokens presented carry.
Audiences == valid_audiences \cup {<<"api://", "client-2">>}
Issuers ==
    valid_issuers
    \cup {<<"https://login.microsoftonline.com/", "tenant-2", "/v2.0">>}

\* The user claims in the payloads: a member of staff, an admin, and a
\* payload that names no address.
TokenClaims ==
    {c \in Claims : /\ c.email = "a@x.example"
                    /\ (c.sub = "s2") = (entra_admin_group_id \in c.groups)}
    \cup {c \in Claims : ~Truthy(extract_user_claims(c).email)}

\* The bearer tokens presented.  key: what the JWKS client does with the
\* token's key id ("found", "unknown": no such key, "unreachable": the
\* endpoint cannot be fetched); signature: whether it verifies under the
\* key; exp: whether the expiry is still ahead; claims: the user claims of
\* the payload.
Tokens ==
    [key       : {"found", "unknown", "unreachable"},
     signature : {"verifies", "forged"},
     exp       : {"ahead", "passed"},
     aud       : Audiences,
     iss       : Issuers,
     claims    : TokenClaims]

\* What validate_token gives: the claims, or the ValueError raised.
Validated(claims) == [kind |-> "claims", claims |-> {claims}, message |-> NULL]
Invalid(message) == [kind |-> "ValueError", claims |-> {}, message |-> message]

\* validate_token without the issuer test.
validate_token_any_issuer(token) ==
    IF token.key # "found"
    THEN Invalid(<<"Token validation error: ", token.key>>)
    ELSE IF token.signature # "verifies"
    THEN Invalid(<<"Invalid token: ", "Signature verification failed">>)
    ELSE IF token.exp # "ahead"
    THEN Invalid(<<"Token has expired">>)
    ELSE IF token.aud \notin valid_audiences
    THEN Invalid(<<"Token validation error: ", "Audience doesn't match">>)
    ELSE Validated(token.claims)

\* validate_token: the signing key is fetched (PyJWKClientError is caught by
\* `except Exception`), jwt.decode verifies the signature and then exp
\* (InvalidTokenError, ExpiredSignatureError), aud and iss are compared by
\* hand; the ValueError of the two comparisons is raised inside the try and
\* so re-raised, as ValueError, by `except Exception`.
validate_token(token) ==
    IF token.key # "found"
    THEN Invalid(<<"Token validation error: ", token.key>>)
    ELSE IF token.signature # "verifies"
    THEN Invalid(<<"Invalid token: ", "Signature verification failed">>)
    ELSE IF token.exp # "ahead"
    THEN Invalid(<<"Token has expired">>)
    ELSE IF token.aud \notin valid_audiences
    THEN Invalid(<<"Token validation error: ", "Audience doesn't match">>)
    ELSE IF token.iss \notin valid_issuers
    THEN Invalid(<<"Token validation error: ", "Invalid token issuer: ", token.iss>>)
    ELSE Validated(token.claims)

\* get_current_user from the bearer token on: validate_token, and with its
\* claims the upsert; its ValueError is answered 401 before any connection
\* is taken.
get_current_user_bearer(p, token) ==
    LET outcome == validate_token(token) IN
    /\ pc[p] = "done"
    /\ IF outcome.kind = "ValueError"
       THEN /\ Respond(p, IF get_current_user_raises(outcome).status_code = 401
                          THEN "HTTP401" ELSE "HTTP500")
       ELSE \E claims \in outcome.claims : get_current_user(p, claims)

NextTokens ==
    \E p \in Procs :
        \/ \E token \in Tokens : get_current_user_bearer(p, token)
        \/ get_current_user_sync(p)
        \/ get_current_user_sync_raises(p, "connection refused")
        \/ get_my_profile(p)

SpecTokens == InitUsers /\ [][NextTokens]_vars

\* The token is one the claim lets through.
Acceptable(token) ==
    /\ token.key = "found" /\ token.signature = "verifies"
    /\ token.exp = "ahead"
    /\ token.aud \in {<<"client-1">>, <<"api://", "client-1">>}
    /\ token.iss \in {<<"https://login.microsoftonline.com/", "tenant-1", "/v2.0">>,
                      <<"https://sts.windows.net/", "tenant-1", "/">>}

\* C35: validate_token returns claims only for a token whose signature
\* verifies, that has not expired, whose aud is the client id or
\* api://<client id> and whose iss is the tenant's v2.0 or v1.0 issuer; for
\* every other token, a failure to fetch the signing key included, it
\* raises ValueError, and get_current_user then answers 401 and leaves the
\* users table as it was.  The claims returned go on to the upsert, unless
\* they name no address, which UserCreate refuses: 401, no row touched.
C35_OnlyValidTokensPass ==
    [][\A p \in Procs :
         (pc[p] = "done" /\ <<pc[p], result[p], auth[p]>>' # <<pc[p], result[p], auth[p]>>) =>
         \A token \in Tokens :
         get_current_user_bearer(p, token) =>
            IF Acceptable(token)
            THEN /\ validate_token(token) = Validated(token.claims)
                 /\ IF UserCreate_accepts(extract_user_claims(token.claims))
                    THEN /\ pc'[p] \in {"sync", "resolved"}
                         /\ auth'[p].claims = {token.claims}
                    ELSE /\ result'[p].kind = "HTTP401"
                         /\ users' = users
            ELSE /\ validate_token(token).kind = "ValueError"
                 /\ result'[p].kind = "HTTP401"
                 /\ pc'[p] = "done"
                 /\ auth'[p] = NoAuth
                 /\ users' = users]_vars

\* A request with a token that is not valid has been answered 401 while
\* users are signed in.
C35_Witness ==
    \E p \in Procs :
        /\ pc[p] = "done" /\ result[p].kind = "HTTP401"
        /\ DOMAIN users # {}

(* ----------------- a list next to creations and deletions -------------- *)

\* The lists the reader asks for while the other worker writes.
RaceLists ==
    {ListArgs(NULL, NULL, NoSearch, 2, 0),
     ListArgs(NULL, NULL, NoSearch, MaxListLimit, 1),
     ListArgs(PENDING, NULL, <<"a">>, 1, 0),
     ListArgs(APPROVED, NULL, NoSearch, 2, 0)}

\* The reader's COUNT and page statements run next to the other worker,
\* over the seeded tables.  The other worker runs creations and deletions,
\* whose transactions end at their audit entry, and statements through
\* database.execute, which are committed as they return.
NextListRace ==
    \/ /\ query[Reader] = NoPage
       /\ \E a \in RaceLists : list_registrations(Reader, a)
    \/ get_registrations_fetch(Reader)
    \/ list_registrations_return(Reader)
    \/ \E p \in Procs \ {Reader} :
           \/ \E u \in UrlTexts : create_registration(p, u)
           \/ \E id \in SeedIds : delete_registration(p, id)
           \/ create_log(p)
           \/ delete_log(p)
           \/ Fault(p)
           \/ get_db_connection(p)
           \/ \E statement \in Statements :
                  \E args \in StatementArgs(statement) :
                      execute(p, statement, args)

SpecListRace == InitList /\ [][NextListRace]_vars

NextUrl ==
    \E p \in Procs :
        \/ \E u \in UrlTexts : create_registration(p, u)
        \/ create_log(p)
        \/ Fault(p)
        \/ \E u \in UrlTexts : get_registration_by_url_call(p, u)

SpecUrl == Init /\ [][NextUrl]_vars

\* The committed registration a create with the URL text u has stored.
CreatedFrom(u) ==
    {regs[id] : id \in {k \in DOMAIN regs :
                           regs[k].endpoint_url = StrHttpUrl(u)}}

\* C37: a create with the URL text u whose INSERT has run ends, unless the
\* store fails, with the registration stored; once it is stored, a lookup
\* get_registration_by_url(u) with the same text returns that registration,
\* and another create with the text u fails with the unique violation
\* (409).
C37_SubmittedUrlIsFound ==
    [][\A p \in Procs, u \in UrlTexts :
         /\ (/\ pc[p] = "c_log" /\ req[p].url = u
             /\ pc'[p] = "done" /\ result'[p].kind # "Exception")
            => /\ result'[p].kind = "Registration"
               /\ result'[p].reg # {}
               /\ get_registration_by_url(regs', u) = result'[p].reg
         /\ CreatedFrom(u) # {} =>
            /\ get_registration_by_url_call(p, u) =>
                  /\ result'[p].kind = "Registration"
                  /\ result'[p].reg = CreatedFrom(u)
            /\ create_registration(p, u) =>
                  /\ result'[p].kind = "UniqueViolationError"
                  /\ create_registration_route(result'[p]).status_code = 409]_vars

(* ------------------- a URL registered again after a delete ------------- *)

\* The deleted registrations that held the URL u: ids without a row whose
\* Deleted entry names u.
DeletedWithUrl(u) ==
    {id \in RegIds :
        /\ id \notin DOMAIN regs
        /\ \E i \in DeletedEntries(id) :
              /\ audit[i].metadata.type = "object"
              /\ audit[i].metadata.items.endpoint_url = u}

\* C38: after a delete has removed the registration that held the URL u, a
\* create with u is not refused: its INSERT stores a Pending registration
\* under an id the deleted one did not have, and the create ends, unless
\* the store fails, with that registration committed; its commit leaves the
\* ledger entries of the deleted id as they were, and
\* query_logs(registration_id = new id) returns the new Created entry and
\* nothing else.
C38_UrlFreeAfterDelete ==
    [][\A p \in Procs, text \in UrlTexts :
         LET u == StrHttpUrl(text) IN
         (DeletedWithUrl(u) # {} /\ ~UrlHeld(u)) =>
            /\ create_registration(p, text) =>
                  /\ pc'[p] = "c_log"
                  /\ \A row \in txn'[p].row :
                        /\ row.registration_id \notin DeletedWithUrl(u)
                        /\ row.status = PENDING
                        /\ row.endpoint_url = u
            /\ (pc[p] = "c_log" /\ req[p].op = "create" /\ req[p].url = text
                  /\ pc'[p] = "done" /\ result'[p].kind # "Exception") =>
                  /\ result'[p].kind = "Registration"
                  /\ result'[p].reg # {}
                  /\ \A row \in result'[p].reg :
                     LET new == row.registration_id
                         page == query_logs(audit', new, NULL, NULL, NullTime,
                                            NullTime, MaxLimit, 0)
                     IN
                     /\ new \in DOMAIN regs' /\ regs'[new] = row
                     /\ new \notin DeletedWithUrl(u)
                     /\ row.status = PENDING
                     /\ \A old \in DeletedWithUrl(u) :
                           EntriesOf(audit', old) = EntriesOf(audit, old)
                     /\ page.total = 1
                     /\ Len(page.results) = 1
                     /\ page.results[1].action = CREATED
                     /\ page.results[1].registration_id = new]_vars

(* ------------------- a start that fails, a second close ---------------- *)

\* C39: when init_db_pool has raised, at create_pool or at the test query,
\* _pool is unset, so get_pool and every later get_db_connection raise
\* RuntimeError; and close_db_pool called while _pool is unset changes
\* nothing, get_pool raising after it as before.
C39_FailedInitLeavesNoPool ==
    /\ [](pool.phase = "failed" => get_pool(pool) = "RuntimeError")
    /\ [](\A p \in Procs : obs[p] = "failed" => result[p].kind = "RuntimeError")
    /\ [][close_db_pool_unset =>
            /\ pool'.pool = pool.pool
            /\ get_pool(pool') = "RuntimeError"]_vars

====
